---- MODULE Spec2Model ----
(***************************************************************************)
(* A model of the Mali gralloc buffer allocator: the format catalog, the   *)
(* capability cache, format selection, allocation-type resolution, the     *)
(* geometry calculator and the ION allocation orchestrator.                *)
(*                                                                         *)
(* Bit masks (usage, capability masks, format modifier bits) are sets of   *)
(* bit names: `a & b' is intersection, `a | b' is union, `a & ~b' is set   *)
(* difference.  A format value is a record [fmt, ext]: the base format id   *)
(* (the bits under MALI_GRALLOC_INTFMT_FMT_MASK) and the modifier bits     *)
(* (the bits under MALI_GRALLOC_INTFMT_EXT_MASK).  The value 0 is          *)
(* ZeroFormat.                                                             *)
(***************************************************************************)
EXTENDS Integers, Sequences, FiniteSets, TLC

(***************************************************************************)
(* Format catalog (format_info.cpp).                                       *)
(***************************************************************************)
FormatInfo(id, npln, ncmp, bps, bpp_afbc, bpp, hsub, vsub, tile_size, has_alpha, is_yuv, afbc, linear, flex, pwa) ==
    [id |-> id, npln |-> npln, ncmp |-> ncmp, bps |-> bps, bpp_afbc |-> bpp_afbc,
     bpp |-> bpp, hsub |-> hsub, vsub |-> vsub, tile_size |-> tile_size,
     has_alpha |-> has_alpha, is_yuv |-> is_yuv, afbc |-> afbc, linear |-> linear,
     flex |-> flex, pwa |-> pwa]

formats ==
    << FormatInfo("RGB_565",         1, 3, 6,  <<16, 0, 0>>,  <<16, 0, 0>>,  1, 1, 1, FALSE, FALSE, TRUE,  TRUE,  FALSE, 1),
       FormatInfo("RGB_888",         1, 3, 8,  <<24, 0, 0>>,  <<24, 0, 0>>,  1, 1, 1, FALSE, FALSE, TRUE,  TRUE,  TRUE,  1),
       FormatInfo("RGBA_8888",       1, 4, 8,  <<32, 0, 0>>,  <<32, 0, 0>>,  1, 1, 1, TRUE,  FALSE, TRUE,  TRUE,  TRUE,  1),
       FormatInfo("BGRA_8888",       1, 4, 8,  <<32, 0, 0>>,  <<32, 0, 0>>,  1, 1, 1, TRUE,  FALSE, TRUE,  TRUE,  TRUE,  1),
       FormatInfo("RGBX_8888",       1, 3, 8,  <<32, 0, 0>>,  <<32, 0, 0>>,  1, 1, 1, FALSE, FALSE, TRUE,  TRUE,  TRUE,  1),
       FormatInfo("RGBA_1010102",    1, 4, 10, <<32, 0, 0>>,  <<32, 0, 0>>,  1, 1, 1, TRUE,  FALSE, TRUE,  TRUE,  FALSE, 1),
       FormatInfo("RGBA_16161616",   1, 4, 16, <<64, 0, 0>>,  <<64, 0, 0>>,  1, 1, 1, TRUE,  FALSE, FALSE, TRUE,  TRUE,  1),
       FormatInfo("Y8",              1, 1, 8,  <<8, 0, 0>>,   <<8, 0, 0>>,   2, 2, 1, FALSE, TRUE,  TRUE,  TRUE,  TRUE,  16),
       FormatInfo("Y16",             1, 1, 16, <<16, 0, 0>>,  <<16, 0, 0>>,  2, 2, 1, FALSE, TRUE,  TRUE,  TRUE,  TRUE,  16),
       FormatInfo("YUV420_8BIT_I",   1, 3, 8,  <<12, 0, 0>>,  <<0, 0, 0>>,   2, 2, 1, FALSE, TRUE,  TRUE,  FALSE, FALSE, 1),
       FormatInfo("NV12",            2, 3, 8,  <<8, 16, 0>>,  <<8, 16, 0>>,  2, 2, 1, FALSE, TRUE,  TRUE,  TRUE,  TRUE,  1),
       FormatInfo("NV21",            2, 3, 8,  <<8, 16, 0>>,  <<8, 16, 0>>,  2, 2, 1, FALSE, TRUE,  TRUE,  TRUE,  TRUE,  1),
       FormatInfo("YCrCb_420_SP",    2, 3, 8,  <<8, 16, 0>>,  <<8, 16, 0>>,  2, 2, 1, FALSE, TRUE,  TRUE,  TRUE,  TRUE,  1),
       FormatInfo("YV12",            3, 3, 8,  <<8, 8, 8>>,   <<8, 8, 8>>,   2, 2, 1, FALSE, TRUE,  TRUE,  TRUE,  TRUE,  16),
       FormatInfo("YCbCr_422_I",     1, 3, 8,  <<16, 0, 0>>,  <<16, 0, 0>>,  2, 1, 1, FALSE, TRUE,  TRUE,  TRUE,  TRUE,  1),
       FormatInfo("YCbCr_422_SP",    2, 3, 8,  <<8, 16, 0>>,  <<8, 16, 0>>,  2, 1, 1, FALSE, TRUE,  TRUE,  TRUE,  TRUE,  1),
       FormatInfo("YUV420_10BIT_I",  1, 3, 10, <<15, 0, 0>>,  <<0, 0, 0>>,   2, 2, 1, FALSE, TRUE,  TRUE,  FALSE, FALSE, 1),
       FormatInfo("Y0L2",            1, 4, 10, <<16, 0, 0>>,  <<16, 0, 0>>,  2, 2, 2, TRUE,  TRUE,  FALSE, TRUE,  FALSE, 1),
       FormatInfo("P010",            2, 3, 10, <<10, 20, 0>>, <<16, 32, 0>>, 2, 2, 1, FALSE, TRUE,  TRUE,  TRUE,  TRUE,  1),
       FormatInfo("Y210",            1, 3, 10, <<20, 0, 0>>,  <<32, 0, 0>>,  2, 1, 1, FALSE, TRUE,  TRUE,  TRUE,  TRUE,  1),
       FormatInfo("P210",            2, 3, 10, <<10, 20, 0>>, <<16, 32, 0>>, 2, 1, 1, FALSE, TRUE,  TRUE,  TRUE,  TRUE,  1),
       FormatInfo("YUV444_10BIT_I",  1, 3, 10, <<30, 0, 0>>,  <<0, 0, 0>>,   1, 1, 1, FALSE, TRUE,  TRUE,  FALSE, FALSE, 1),
       FormatInfo("Y410",            1, 4, 10, <<32, 0, 0>>,  <<32, 0, 0>>,  1, 1, 1, TRUE,  TRUE,  FALSE, TRUE,  FALSE, 1),
       FormatInfo("RAW16",           1, 1, 16, <<16, 0, 0>>,  <<16, 0, 0>>,  2, 2, 1, FALSE, FALSE, FALSE, TRUE,  FALSE, 16),
       FormatInfo("RAW12",           1, 1, 12, <<12, 0, 0>>,  <<12, 0, 0>>,  4, 2, 1, FALSE, FALSE, FALSE, TRUE,  FALSE, 4),
       FormatInfo("RAW10",           1, 1, 10, <<10, 0, 0>>,  <<10, 0, 0>>,  4, 2, 1, FALSE, FALSE, FALSE, TRUE,  FALSE, 4),
       FormatInfo("BLOB",            1, 1, 8,  <<8, 0, 0>>,   <<8, 0, 0>>,   1, 1, 1, FALSE, FALSE, FALSE, TRUE,  FALSE, 1),
       FormatInfo("DEPTH_16",        1, 1, 16, <<0, 0, 0>>,   <<16, 0, 0>>,  1, 1, 1, FALSE, FALSE, FALSE, TRUE,  FALSE, 1),
       FormatInfo("DEPTH_24",        1, 1, 24, <<0, 0, 0>>,   <<24, 0, 0>>,  1, 1, 1, FALSE, FALSE, FALSE, TRUE,  FALSE, 1),
       FormatInfo("DEPTH_24_STENCIL_8", 1, 2, 24, <<0, 0, 0>>, <<32, 0, 0>>, 1, 1, 1, FALSE, FALSE, FALSE, TRUE,  FALSE, 1),
       FormatInfo("DEPTH_32F",       1, 1, 32, <<0, 0, 0>>,   <<32, 0, 0>>,  1, 1, 1, FALSE, FALSE, FALSE, TRUE,  FALSE, 1),
       FormatInfo("DEPTH_32F_STENCIL_8", 1, 2, 32, <<0, 0, 0>>, <<40, 0, 0>>, 1, 1, 1, FALSE, FALSE, FALSE, TRUE, FALSE, 1),
       FormatInfo("STENCIL_8",       1, 1, 8,  <<0, 0, 0>>,   <<8, 0, 0>>,   1, 1, 1, FALSE, FALSE, FALSE, TRUE,  FALSE, 1) >>

num_formats == 33

\* The loop `for (format_idx = 0; format_idx < num_formats; format_idx++) if
\* (formats[format_idx].id == id) break;': the (1-based) index of the first
\* entry with that id, num_formats + 1 when the loop runs to its end.
RECURSIVE format_scan(_, _)
format_scan(id, idx) ==
    IF idx > num_formats THEN idx
    ELSE IF formats[idx].id = id THEN idx
    ELSE format_scan(id, idx + 1)

\* get_format_index: -1 when the scan ran to the end of the table.
scan_result(format_idx) == IF format_idx > num_formats THEN -1 ELSE format_idx

get_format_index(base_format) == scan_result(format_scan(base_format, 1))

\* formats[idx] as the program reads it: a table entry, or, beyond the table,
\* whatever lies behind it (oob, an arbitrary entry).
format_at(idx, oob) == IF idx <= num_formats THEN formats[idx] ELSE oob

ZeroFormat == [fmt |-> "0", ext |-> {}]

\* A format value without modifier bits.
BaseFormat(id) == [fmt |-> id, ext |-> {}]

(***************************************************************************)
(* Usage bits (mali_gralloc_usages.h, gralloc 1.0 branch).  The two CPU    *)
(* nibbles are spelled out bit by bit because SW_READ_OFTEN is two bits of *)
(* the read nibble.                                                        *)
(***************************************************************************)
GRALLOC_USAGE_SW_READ_RARELY == {"CPU_READ"}
GRALLOC_USAGE_SW_READ_OFTEN == {"CPU_READ", "CPU_READ_OFTEN"}
GRALLOC_USAGE_SW_READ_MASK == {"USAGE_BIT0", "CPU_READ", "CPU_READ_OFTEN", "USAGE_BIT3"}
GRALLOC_USAGE_SW_WRITE_RARELY == {"CPU_WRITE"}
GRALLOC_USAGE_SW_WRITE_OFTEN == {"CPU_WRITE", "CPU_WRITE_OFTEN"}
GRALLOC_USAGE_SW_WRITE_MASK == {"USAGE_BIT4", "CPU_WRITE", "CPU_WRITE_OFTEN", "USAGE_BIT7"}
GRALLOC_USAGE_HW_TEXTURE == {"GPU_TEXTURE"}
GRALLOC_USAGE_HW_RENDER == {"GPU_RENDER_TARGET"}
GRALLOC_USAGE_HW_2D == {"HW_2D"}
GRALLOC_USAGE_HW_COMPOSER == {"HWCOMPOSER"}
GRALLOC_USAGE_HW_FB == {"CLIENT_TARGET"}
GRALLOC_USAGE_EXTERNAL_DISP == {"EXTERNAL_DISP"}
GRALLOC_USAGE_PROTECTED == {"PROTECTED"}
GRALLOC_USAGE_HW_VIDEO_ENCODER == {"VIDEO_ENCODER"}
GRALLOC_USAGE_HW_CAMERA_MASK == {"CONSUMER_CAMERA", "PRODUCER_CAMERA"}
GRALLOC_USAGE_PRIVATE_0 == {"PRIVATE_0"}
GRALLOC_USAGE_PRIVATE_1 == {"PRIVATE_1"}
GRALLOC_USAGE_PRIVATE_2 == {"PRIVATE_2"}
GRALLOC_USAGE_PRIVATE_3 == {"PRIVATE_3"}
GRALLOC_USAGE_PRIVATE_MASK ==
    {"PRIVATE_0", "PRIVATE_1", "PRIVATE_2", "PRIVATE_3", "PRIVATE_18", "PRIVATE_19"}

MALI_GRALLOC_USAGE_FRONTBUFFER == GRALLOC_USAGE_PRIVATE_0
MALI_GRALLOC_USAGE_FORCE_BACKBUFFER == GRALLOC_USAGE_PRIVATE_1
MALI_GRALLOC_USAGE_NO_AFBC == GRALLOC_USAGE_PRIVATE_1 \cup GRALLOC_USAGE_PRIVATE_2
MALI_GRALLOC_USAGE_AFBC_PADDING == GRALLOC_USAGE_PRIVATE_2
MALI_GRALLOC_USAGE_PRIVATE_FORMAT == GRALLOC_USAGE_PRIVATE_3
MALI_GRALLOC_USAGE_YUV_CONF_MASK == {"PRIVATE_18", "PRIVATE_19"}

\* `(a & b) != 0' and `(a & b) == b' on bit sets.
AnyBit(a, b) == a \cap b # {}
AllBits(a, b) == b \subseteq a

(***************************************************************************)
(* Capability bits and format modifier bits (mali_gralloc_formats.h).      *)
(***************************************************************************)
MALI_GRALLOC_FORMAT_CAPABILITY_AFBCENABLE_MASK ==
    {"AFBC_BASIC", "AFBC_SPLITBLK", "AFBC_WIDEBLK", "AFBC_TILED_HEADERS"}

MALI_GRALLOC_INTFMT_AFBCENABLE_MASK == {"AFBC_BASIC"}

\* ~0ULL as a runtime mask: every capability bit.
AllCapBits ==
    {"OPTIONS_PRESENT", "AFBC_BASIC", "AFBC_SPLITBLK", "AFBC_WIDEBLK",
     "AFBC_WIDEBLK_YUV_DISABLE", "AFBC_YUV_NOREAD", "AFBC_YUV_NOWRITE",
     "AFBC_TILED_HEADERS", "AFBC_EXTRAWIDEBLK", "AFBC_MULTIPLANE_READ",
     "AFBC_DOUBLE_BODY", "PIXFMT_RGBA1010102", "PIXFMT_RGBA16161616"}

(***************************************************************************)
(* Format selection helpers (mali_gralloc_formats.cpp).                    *)
(***************************************************************************)
map_flex_formats(req_format) ==
    LET flexed == IF req_format \in {"IMPLEMENTATION_DEFINED", "YCbCr_420_888"}
                  THEN "NV12" ELSE req_format
    IN  IF flexed = "YUV422_8BIT" THEN "YCbCr_422_I" ELSE flexed

comparable_components(old_format, new_format) ==
    \/ /\ new_format.ncmp = old_format.ncmp
       /\ new_format.bps = old_format.bps
       /\ new_format.is_yuv = old_format.is_yuv
    \/ /\ old_format.is_yuv
       /\ old_format.has_alpha
       /\ new_format.ncmp = 3
       /\ new_format.is_yuv
       /\ ~new_format.has_alpha

\* The second loop of is_afbc_supported: the first AFBC-capable entry with
\* comparable components, the starting index when there is none.
RECURSIVE afbc_comparable_scan(_, _, _)
afbc_comparable(old_format, new_format) ==
    comparable_components(old_format, new_format) /\ new_format.afbc

afbc_comparable_scan(format_idx, i, oob) ==
    IF i > num_formats THEN format_idx
    ELSE IF afbc_comparable(format_at(format_idx, oob), formats[i]) THEN i
         ELSE afbc_comparable_scan(format_idx, i + 1, oob)

\* is_afbc_supported after its first loop has left format_idx.
afbc_supported_from(format_idx, oob) ==
    IF ~format_at(format_idx, oob).afbc
    THEN format_at(afbc_comparable_scan(format_idx, 1, oob), oob).afbc
    ELSE TRUE

is_afbc_supported(req_format_mapped, oob) ==
    afbc_supported_from(format_scan(req_format_mapped, 1), oob)

is_android_yuv_format(req_format_mapped, oob) ==
    format_at(format_scan(req_format_mapped, 1), oob).is_yuv

is_subsampled_yuv(base_format) ==
    base_format \in {"YV12", "YCrCb_420_SP", "NV12", "NV21", "YCbCr_422_I", "Y0L2",
                     "P010", "P210", "Y210", "YUV422_8BIT", "YCbCr_420_888",
                     "YUV420_8BIT_I", "YUV420_10BIT_I", "YCbCr_422_SP"}

is_yuv_format(base_format) ==
    IF base_format \in {"Y8", "Y16", "Y410"} THEN TRUE ELSE is_subsampled_yuv(base_format)

is_depth_or_stencil_format(req_format) ==
    req_format \in {"DEPTH_16", "DEPTH_24", "DEPTH_24_STENCIL_8", "DEPTH_32F",
                    "DEPTH_32F_STENCIL_8", "STENCIL_8"}

apply_gpu_producer_limitations(req_format_mapped, producer_runtime_mask, gpu_caps, oob) ==
    IF is_android_yuv_format(req_format_mapped, oob)
    THEN IF "AFBC_YUV_NOWRITE" \in gpu_caps
         THEN producer_runtime_mask \ MALI_GRALLOC_FORMAT_CAPABILITY_AFBCENABLE_MASK
         ELSE producer_runtime_mask \ {"AFBC_SPLITBLK", "AFBC_WIDEBLK"}
    ELSE producer_runtime_mask

apply_video_consumer_limitations(req_format_mapped, consumer_runtime_mask, vpu_caps, oob) ==
    IF is_android_yuv_format(req_format_mapped, oob)
    THEN IF "AFBC_YUV_NOREAD" \in vpu_caps
         THEN consumer_runtime_mask \ MALI_GRALLOC_FORMAT_CAPABILITY_AFBCENABLE_MASK
         ELSE consumer_runtime_mask
    ELSE consumer_runtime_mask \ MALI_GRALLOC_FORMAT_CAPABILITY_AFBCENABLE_MASK

\* afbc_allowed is true in every build but Mali-DP550/650 with a configured
\* display size; the model follows the `always allow' branches.
apply_display_consumer_limitations(req_format_mapped, buffer_size, display_consumer_runtime_mask, oob) ==
    IF is_android_yuv_format(req_format_mapped, oob)
    THEN display_consumer_runtime_mask \ {"AFBC_SPLITBLK", "AFBC_WIDEBLK"}
    ELSE IF req_format_mapped = "RGB_565"
         THEN display_consumer_runtime_mask \ {"AFBC_SPLITBLK"}
         ELSE display_consumer_runtime_mask

\* The `Reject unsupported formats' tail of each producer/consumer branch:
\* a wide RGBA format one of the given masks has no pixel-format bit for.
pixfmt_unsupported(req_format, masks) ==
    \/ req_format = "RGBA_1010102" /\ \E m \in masks : "PIXFMT_RGBA1010102" \notin m
    \/ req_format = "RGBA_16161616" /\ \E m \in masks : "PIXFMT_RGBA16161616" \notin m

\* The modifier bits every one of the given masks has the capability for.
afbc_bits(bits, masks) == {b \in bits : \A m \in masks : b \in m}

determine_best_format(req_format, producer, consumer, producer_runtime_mask, consumer_runtime_mask, caps) ==
    LET plain == BaseFormat(req_format)
        with(bits) == [fmt |-> req_format, ext |-> bits]
    IN
    IF producer = "UNKNOWN" /\ consumer = "UNKNOWN" THEN plain
    ELSE IF producer = "UNKNOWN" \/ (producer = "GPU" /\ "OPTIONS_PRESENT" \in caps.gpu)
    THEN LET gpu_p == caps.gpu \cap producer_runtime_mask
             gpu_mask == gpu_p \cap consumer_runtime_mask
             dpu_mask == caps.dpu \cap consumer_runtime_mask
             vpu_mask == caps.vpu \cap consumer_runtime_mask
         IN  IF consumer = "GPU_OR_DISPLAY"
             THEN IF pixfmt_unsupported(req_format, {gpu_mask}) THEN ZeroFormat
                  ELSE with(afbc_bits({"AFBC_BASIC", "AFBC_SPLITBLK", "AFBC_WIDEBLK",
                                       "AFBC_TILED_HEADERS"}, {gpu_mask, dpu_mask}))
             ELSE IF consumer \in {"GPU_EXCL", "UNKNOWN"}
             THEN IF pixfmt_unsupported(req_format, {gpu_mask}) THEN ZeroFormat
                  ELSE with(afbc_bits({"AFBC_BASIC", "AFBC_TILED_HEADERS"}, {gpu_mask}))
             ELSE IF consumer = "VIDEO_ENCODER"
             THEN IF pixfmt_unsupported(req_format, {gpu_p, vpu_mask}) THEN ZeroFormat
                  ELSE IF req_format \in {"YV12", "NV12"}
                       THEN with(afbc_bits({"AFBC_BASIC", "AFBC_TILED_HEADERS"}, {gpu_p, vpu_mask}))
                       ELSE plain
             ELSE plain
    ELSE IF producer = "VIDEO_DECODER" /\ "OPTIONS_PRESENT" \in caps.vpu
    THEN LET vpu_mask == caps.vpu \cap producer_runtime_mask
             gpu_mask == caps.gpu \cap consumer_runtime_mask
             dpu_mask == caps.dpu \cap consumer_runtime_mask
         IN  IF consumer = "GPU_OR_DISPLAY"
             THEN IF pixfmt_unsupported(req_format, {vpu_mask, gpu_mask}) THEN ZeroFormat
                  ELSE IF req_format = "YV12"
                       THEN with(afbc_bits({"AFBC_BASIC", "AFBC_TILED_HEADERS"},
                                           {vpu_mask, gpu_mask, dpu_mask}))
                       ELSE plain
             ELSE IF consumer = "GPU_EXCL"
             THEN IF pixfmt_unsupported(req_format, {gpu_mask, vpu_mask}) THEN ZeroFormat
                  ELSE IF req_format = "YV12"
                       THEN with(afbc_bits({"AFBC_BASIC", "AFBC_TILED_HEADERS"}, {gpu_mask, vpu_mask}))
                       ELSE plain
             ELSE IF consumer = "VIDEO_ENCODER"
             THEN IF pixfmt_unsupported(req_format, {vpu_mask}) THEN ZeroFormat ELSE plain
             ELSE plain
    ELSE IF producer = "CAMERA" /\ "OPTIONS_PRESENT" \in caps.cam THEN plain
    ELSE IF producer = "DISPLAY_AEU" /\ consumer = "DISPLAY_EXCL" /\ "OPTIONS_PRESENT" \in caps.dpu
    THEN LET dpu_mask == (caps.dpu \cap producer_runtime_mask) \cap consumer_runtime_mask
         IN  IF "AFBC_BASIC" \in dpu_mask
             THEN with(afbc_bits({"AFBC_BASIC", "AFBC_TILED_HEADERS"}, {dpu_mask}))
             ELSE plain
    ELSE plain

\* GRALLOC_PRIVATE_FORMAT_UNWRAP: the base format and modifier bits packed
\* into the 32-bit private format.
GRALLOC_PRIVATE_FORMAT_UNWRAP(req_format) == [fmt |-> req_format.fmt, ext |-> req_format.ext]

DecodableBaseFormats ==
    {"RGBA_8888", "RGBX_8888", "RGB_888", "RGB_565", "BGRA_8888", "RGBA_1010102",
     "RGBA_16161616", "YV12", "Y8", "Y16", "RAW16", "RAW12", "RAW10", "BLOB", "NV12",
     "NV21", "YUV422_8BIT", "Y0L2", "P010", "P210", "Y210", "Y410", "YCbCr_422_I",
     "YCrCb_420_SP", "YCbCr_422_SP", "YUV420_8BIT_I", "YUV420_10BIT_I",
     "YUV444_10BIT_I", "DEPTH_16", "DEPTH_24", "DEPTH_24_STENCIL_8", "DEPTH_32F",
     "DEPTH_32F_STENCIL_8", "STENCIL_8"}

decode_internal_format(req_format, type) ==
    IF type \notin {"USAGE", "INTERNAL"} THEN ZeroFormat
    ELSE LET internal_format == IF type = "USAGE"
                                THEN GRALLOC_PRIVATE_FORMAT_UNWRAP(req_format)
                                ELSE req_format
             base_format == internal_format.fmt
             mapped_base_format == map_flex_formats(base_format)
         IN  IF mapped_base_format \in DecodableBaseFormats
             THEN [fmt |-> mapped_base_format, ext |-> internal_format.ext]
             ELSE ZeroFormat

determine_producer_patterns_first(usage) ==
    IF AnyBit(usage, GRALLOC_USAGE_SW_READ_MASK \cup GRALLOC_USAGE_SW_WRITE_MASK)
    THEN [rval |-> FALSE, producer |-> "CPU"]
    ELSE [rval |-> TRUE,
          producer |->
            IF AllBits(usage, GRALLOC_USAGE_HW_RENDER \cup GRALLOC_USAGE_HW_COMPOSER
                              \cup GRALLOC_USAGE_HW_VIDEO_ENCODER)
            THEN "GPU_OR_DISPLAY"
            ELSE IF AllBits(usage, GRALLOC_USAGE_HW_TEXTURE \cup GRALLOC_USAGE_HW_COMPOSER
                                   \cup GRALLOC_USAGE_EXTERNAL_DISP)
                 THEN "VIDEO_DECODER"
            ELSE IF AllBits(usage, GRALLOC_USAGE_HW_COMPOSER \cup GRALLOC_USAGE_HW_VIDEO_ENCODER)
                 THEN "DISPLAY"
            ELSE IF AnyBit(usage, GRALLOC_USAGE_HW_RENDER) THEN "GPU"
            ELSE IF AnyBit(usage, GRALLOC_USAGE_HW_CAMERA_MASK) THEN "CAMERA"
            ELSE IF usage = GRALLOC_USAGE_HW_COMPOSER THEN "DISPLAY_AEU"
            ELSE "UNKNOWN"]

determine_producer(usage) ==
    IF AnyBit(usage, GRALLOC_USAGE_SW_READ_MASK \cup GRALLOC_USAGE_SW_WRITE_MASK)
    THEN [rval |-> FALSE, producer |-> "CPU"]
    ELSE [rval |-> TRUE,
          producer |->
            IF AllBits(usage, GRALLOC_USAGE_HW_RENDER \cup GRALLOC_USAGE_HW_COMPOSER
                              \cup GRALLOC_USAGE_HW_VIDEO_ENCODER)
            THEN "GPU_OR_DISPLAY"
            ELSE IF AnyBit(usage, GRALLOC_USAGE_HW_RENDER) THEN "GPU"
            ELSE IF AnyBit(usage, GRALLOC_USAGE_HW_CAMERA_MASK) THEN "CAMERA"
            ELSE IF AllBits(usage, GRALLOC_USAGE_HW_TEXTURE \cup GRALLOC_USAGE_HW_COMPOSER
                                   \cup GRALLOC_USAGE_EXTERNAL_DISP)
                 THEN "VIDEO_DECODER"
            ELSE IF AllBits(usage, GRALLOC_USAGE_HW_COMPOSER \cup GRALLOC_USAGE_HW_VIDEO_ENCODER)
                 THEN "DISPLAY"
            ELSE IF usage = GRALLOC_USAGE_HW_COMPOSER THEN "DISPLAY_AEU"
            ELSE "UNKNOWN"]

determine_consumer(usage, dpu_caps) ==
    IF AnyBit(usage, GRALLOC_USAGE_SW_READ_MASK \cup GRALLOC_USAGE_SW_WRITE_MASK)
    THEN [rval |-> FALSE, consumer |-> "CPU"]
    ELSE [rval |-> TRUE,
          consumer |->
            IF AnyBit(usage, GRALLOC_USAGE_HW_FB) THEN "GPU_OR_DISPLAY"
            ELSE IF AnyBit(usage, GRALLOC_USAGE_HW_VIDEO_ENCODER) THEN "VIDEO_ENCODER"
            ELSE IF AllBits(usage, GRALLOC_USAGE_HW_TEXTURE \cup GRALLOC_USAGE_HW_COMPOSER)
                    /\ "OPTIONS_PRESENT" \in dpu_caps
                 THEN "GPU_OR_DISPLAY"
            ELSE IF AnyBit(usage, GRALLOC_USAGE_HW_TEXTURE) THEN "GPU_EXCL"
            ELSE IF usage = GRALLOC_USAGE_HW_COMPOSER THEN "DISPLAY_EXCL"
            ELSE "UNKNOWN"]

validate_depth_stencil_usage(internal_format, producer, consumer) ==
    IF \/ producer \notin {"GPU", "CPU", "UNKNOWN"}
       \/ consumer \notin {"GPU_EXCL", "CPU", "UNKNOWN"}
       \/ (producer = "UNKNOWN" /\ consumer = "UNKNOWN")
    THEN ZeroFormat
    ELSE internal_format

\* The producer and consumer runtime masks select_format hands to
\* determine_best_format (the `Determine runtime capability limitations' part).
select_runtime_masks(req_format_mapped, usage, buffer_size, producer, consumer, caps, oob) ==
    LET no_afbc == AllCapBits \ MALI_GRALLOC_FORMAT_CAPABILITY_AFBCENABLE_MASK
    IN  IF AllBits(usage, MALI_GRALLOC_USAGE_NO_AFBC)
        THEN [producer |-> no_afbc, consumer |-> no_afbc]
        ELSE IF ~is_afbc_supported(req_format_mapped, oob)
        THEN [producer |-> no_afbc, consumer |-> no_afbc]
        ELSE [producer |->
                IF producer \in {"GPU", "GPU_OR_DISPLAY"}
                THEN apply_gpu_producer_limitations(req_format_mapped, AllCapBits, caps.gpu, oob)
                ELSE AllCapBits,
              consumer |->
                IF consumer = "VIDEO_ENCODER"
                THEN apply_video_consumer_limitations(req_format_mapped, AllCapBits, caps.vpu, oob)
                ELSE IF consumer \in {"GPU_OR_DISPLAY", "DISPLAY_EXCL"}
                THEN apply_display_consumer_limitations(req_format_mapped, buffer_size, AllCapBits, oob)
                ELSE AllCapBits]

select_frontbuffer_unchanged(internal_format, producer, consumer, caps) == internal_format

\* The front-buffer tail of select_format.
select_frontbuffer(internal_format, producer, consumer, caps) ==
    LET safe == /\ producer \in {"UNKNOWN", "GPU"}
                /\ consumer \in {"UNKNOWN", "GPU_EXCL"}
                /\ "AFBC_DOUBLE_BODY" \in caps.gpu
                /\ "AFBC_BASIC" \in internal_format.ext
                /\ "AFBC_TILED_HEADERS" \in internal_format.ext
        doubled == IF safe
                   THEN [internal_format EXCEPT
                           !.ext = (@ \cup {"AFBC_DOUBLE_BODY"}) \ {"AFBC_WIDEBLK", "AFBC_EXTRAWIDEBLK"}]
                   ELSE internal_format
    IN  IF "AFBC_DOUBLE_BODY" \notin doubled.ext
        THEN [doubled EXCEPT !.ext = {}]
        ELSE doubled

\* select_format from the RAW/Y8/Y16 check on; best is what
\* determine_best_format returned.
select_checked(req_format_mapped, usage, producer, consumer, caps, best) ==
    LET raw_checked ==
            IF /\ req_format_mapped \in {"RAW10", "RAW12", "RAW16", "Y8", "Y16"}
               /\ \/ producer \notin {"CPU", "CAMERA", "UNKNOWN"}
                  \/ consumer \notin {"CPU", "UNKNOWN"}
            THEN ZeroFormat
            ELSE best
        depth_checked ==
            IF is_depth_or_stencil_format(req_format_mapped)
            THEN validate_depth_stencil_usage(raw_checked, producer, consumer)
            ELSE raw_checked
    IN  IF AnyBit(usage, MALI_GRALLOC_USAGE_FRONTBUFFER)
        THEN select_frontbuffer(depth_checked, producer, consumer, caps)
        ELSE depth_checked

\* determine_best_format under the runtime masks worked out before.
select_best(req_format_mapped, producer, consumer, masks, caps) ==
    determine_best_format(req_format_mapped, producer, consumer,
                          masks.producer, masks.consumer, caps)

\* select_format for a usage without CPU bits, the producer and consumer known.
select_for_hw(req_format_mapped, usage, buffer_size, producer, consumer, caps, oob) ==
    IF AllBits(usage, MALI_GRALLOC_USAGE_NO_AFBC)
       /\ is_android_yuv_format(req_format_mapped, oob)
    THEN ZeroFormat
    ELSE select_checked(req_format_mapped, usage, producer, consumer, caps,
             select_best(req_format_mapped, producer, consumer,
                 select_runtime_masks(req_format_mapped, usage, buffer_size,
                                      producer, consumer, caps, oob),
                 caps))

select_format_without_cpu_return(req_format, type, usage, buffer_size, caps, oob) ==
    IF AnyBit(usage, MALI_GRALLOC_USAGE_PRIVATE_FORMAT) \/ type = "INTERNAL"
    THEN decode_internal_format(req_format, type)
    ELSE select_for_hw(map_flex_formats(req_format.fmt), usage, buffer_size,
                       determine_producer(usage).producer,
                       determine_consumer(usage, caps.dpu).consumer, caps, oob)

\* caps is the capability cache as the call sees it after its lazy
\* initialisation; oob is what a read behind the end of formats[] returns.
mali_gralloc_select_format(req_format, type, usage, buffer_size, caps, oob) ==
    IF AnyBit(usage, MALI_GRALLOC_USAGE_PRIVATE_FORMAT) \/ type = "INTERNAL"
    THEN decode_internal_format(req_format, type)
    ELSE IF ~determine_producer(usage).rval \/ ~determine_consumer(usage, caps.dpu).rval
    THEN BaseFormat(map_flex_formats(req_format.fmt))
    ELSE select_for_hw(map_flex_formats(req_format.fmt), usage, buffer_size,
                       determine_producer(usage).producer,
                       determine_consumer(usage, caps.dpu).consumer, caps, oob)

\* The indices at which one select_format call reads formats[] through the
\* unchecked scans of is_android_yuv_format and is_afbc_supported.
select_format_table_reads(req_format, type, usage) ==
    IF AnyBit(usage, MALI_GRALLOC_USAGE_PRIVATE_FORMAT) \/ type = "INTERNAL" THEN {}
    ELSE IF ~determine_producer(usage).rval THEN {}
    ELSE {format_scan(map_flex_formats(req_format.fmt), 1)}

(***************************************************************************)
(* Allocation type and geometry (mali_gralloc_bufferallocation.cpp).       *)
(***************************************************************************)
AFBC_PIXELS_PER_BLOCK == 16
AFBC_HEADER_BUFFER_BYTES_PER_BLOCKENTRY == 16
MAX_PLANES == 3

\* Rounding up to a multiple of base.  A base of 0 (a usage with neither
\* hardware nor CPU bits gives the stride alignment lcm(0, 0) = 0) is a
\* division by zero, whose quotient on the ARM targets is 0.
GRALLOC_ALIGN_adding_remainder(value, base) ==
    IF base = 0 THEN 0 ELSE value + (value % base)

GRALLOC_ALIGN(value, base) ==
    IF base = 0 THEN 0 ELSE ((value + base - 1) \div base) * base

afbc_buffer_align_untiled(is_tiled, size) == GRALLOC_ALIGN(size, 1024)

afbc_buffer_align(is_tiled, size) ==
    GRALLOC_ALIGN(size, IF is_tiled THEN 4 * 1024 ELSE 1024)

\* get_afbc_sb_size(AllocBaseType).
afbc_sb_size_of_type(alloc_base_type) ==
    CASE alloc_base_type = "UNCOMPRESSED" -> [width |-> 0, height |-> 0]
      [] alloc_base_type = "AFBC" -> [width |-> 16, height |-> 16]
      [] alloc_base_type = "AFBC_WIDEBLK" -> [width |-> 32, height |-> 8]
      [] alloc_base_type = "AFBC_EXTRAWIDEBLK" -> [width |-> 64, height |-> 4]

is_afbc(alloc_type) == alloc_type.primary_type # "UNCOMPRESSED"

\* get_afbc_sb_size(alloc_type_t, plane); planes are numbered from 0.
get_afbc_sb_size(alloc_type, plane) ==
    IF plane > 0 /\ is_afbc(alloc_type) /\ alloc_type.is_multi_plane
    THEN afbc_sb_size_of_type("AFBC_EXTRAWIDEBLK")
    ELSE afbc_sb_size_of_type(alloc_type.primary_type)

\* rval is the function's return value, type what it leaves in *alloc_type.
alloc_type_for(ext, npln, usage) ==
    LET afbc == AnyBit(ext, MALI_GRALLOC_INTFMT_AFBCENABLE_MASK)
        tiled == afbc /\ "AFBC_TILED_HEADERS" \in ext
        type ==
            [primary_type |->
                IF ~afbc THEN "UNCOMPRESSED"
                ELSE IF "AFBC_WIDEBLK" \in ext THEN "AFBC_WIDEBLK"
                ELSE IF "AFBC_EXTRAWIDEBLK" \in ext THEN "AFBC_EXTRAWIDEBLK"
                ELSE "AFBC",
             is_multi_plane |->
                IF ~afbc THEN npln > 1
                ELSE IF tiled THEN npln > 1 /\ "AFBC_EXTRAWIDEBLK" \in ext
                ELSE FALSE,
             is_tiled |-> tiled,
             is_padded |-> afbc /\ AnyBit(usage, MALI_GRALLOC_USAGE_AFBC_PADDING),
             is_frontbuffer_safe |-> tiled /\ "AFBC_DOUBLE_BODY" \in ext]
        rejected ==
            /\ afbc
            /\ \/ "AFBC_EXTRAWIDEBLK" \in ext /\ ~tiled
               \/ npln = 1 /\ "AFBC_WIDEBLK" \in ext /\ "AFBC_EXTRAWIDEBLK" \in ext
    IN  [rval |-> ~rejected,
         type |-> IF rejected THEN [type EXCEPT !.is_padded = FALSE] ELSE type]

get_alloc_type_accepting(internal_format, format_idx, usage) ==
    [alloc_type_for(internal_format.ext, formats[format_idx].npln, usage) EXCEPT !.rval = TRUE]

get_alloc_type(internal_format, format_idx, usage) ==
    alloc_type_for(internal_format.ext, formats[format_idx].npln, usage)

\* The test of the search loop of convert_yuv_to_afbc_single_plane.
single_plane_match(old_format, new_format) ==
    /\ new_format.npln = 1
    /\ new_format.afbc
    /\ new_format.bps = old_format.bps
    /\ new_format.hsub = old_format.hsub
    /\ new_format.vsub = old_format.vsub
    /\ new_format.is_yuv = old_format.is_yuv
    /\ comparable_components(old_format, new_format)

\* The search loop from entry i on: 0 when no entry matches.
RECURSIVE single_plane_scan(_, _)
single_plane_scan(old_format, i) ==
    IF i > num_formats THEN 0
    ELSE IF single_plane_match(old_format, formats[i]) THEN i
         ELSE single_plane_scan(old_format, i + 1)

converted_index(format_idx, found) ==
    IF found = 0 THEN [rval |-> FALSE, format_idx |-> format_idx]
    ELSE [rval |-> TRUE, format_idx |-> found]

convert_single_plane(format_idx, old_format) ==
    IF ~old_format.is_yuv THEN [rval |-> FALSE, format_idx |-> format_idx]
    ELSE IF old_format.npln = 1 /\ old_format.afbc
    THEN [rval |-> TRUE, format_idx |-> format_idx]
    ELSE converted_index(format_idx, single_plane_scan(old_format, 1))

convert_yuv_to_afbc_single_plane(format_idx) ==
    convert_single_plane(format_idx, formats[format_idx])

\* Whether afbc_format_fallback attempts the single-plane conversion.
fallback_converts(format_idx, old_format, usage, force, caps) ==
    LET producer == determine_producer(usage).producer
        consumer == determine_consumer(usage, caps.dpu).consumer
        producer_mp_support == producer = "UNKNOWN"
        consumer_mp_support == consumer \in {"UNKNOWN", "GPU_EXCL"}
        is_multiplane_supported ==
            producer_mp_support /\ consumer_mp_support /\ "AFBC_MULTIPLANE_READ" \in caps.gpu
    IN  /\ force \/ ~is_multiplane_supported
        /\ old_format.npln > 1 \/ ~old_format.afbc

fallback_result_keeping_index(format_idx, converts, conv) ==
    [res |-> TRUE, format_idx |-> format_idx]

\* `bool res = false;' in the conversion-failed branch declares a new
\* variable: the function's own res stays true.
fallback_result(format_idx, converts, conv) ==
    [res |-> TRUE,
     format_idx |-> IF converts /\ conv.rval THEN conv.format_idx ELSE format_idx]

afbc_format_fallback(format_idx, usage, force, caps) ==
    fallback_result(format_idx,
                    fallback_converts(format_idx, formats[format_idx], usage, force, caps),
                    convert_yuv_to_afbc_single_plane(format_idx))

validate_format(format, alloc_type, height) ==
    /\ IF is_afbc(alloc_type)
       THEN /\ format.afbc
            /\ ~(format.npln = 1 /\ alloc_type.is_multi_plane)
            /\ ~(format.npln > 1 /\ ~alloc_type.is_multi_plane)
       ELSE format.linear
    /\ ~(format.id = "BLOB" /\ height # 1)

mali_gralloc_adjust_dimensions(internal_format, usage, width, height) ==
    LET producer == determine_producer(usage).producer
        padded_h == IF /\ producer = "VIDEO_DECODER"
                       /\ "AFBC_BASIC" \in internal_format.ext
                       /\ internal_format.fmt \in {"YUV420_8BIT_I", "YCrCb_420_SP", "NV12", "NV21",
                                                   "YV12", "YUV420_10BIT_I", "Y0L2"}
                    THEN height + 16 ELSE height
    IN  IF producer \in {"GPU", "GPU_OR_DISPLAY"} /\ "AFBC_BASIC" \in internal_format.ext
        THEN [width |-> GRALLOC_ALIGN(width, 16), height |-> GRALLOC_ALIGN(padded_h, 16)]
        ELSE [width |-> width, height |-> padded_h]

max(a, b) == IF a > b THEN a ELSE b

max3(a, b, c) == IF c > max(a, b) THEN c ELSE max(a, b)

max4(a, b, c, d) == IF d > max3(a, b, c) THEN d ELSE max3(a, b, c)

get_pixel_w_h(width, height, format, alloc_type, plane, has_cpu_usage) ==
    LET sb == get_afbc_sb_size(alloc_type, plane)
        w_sub == IF plane > 0 THEN GRALLOC_ALIGN(width, format.hsub) \div format.hsub
                 ELSE GRALLOC_ALIGN(width, format.hsub)
        h_sub == IF plane > 0 THEN GRALLOC_ALIGN(height, format.vsub) \div format.vsub
                 ELSE GRALLOC_ALIGN(height, format.vsub)
        num_sb_align == IF alloc_type.is_padded /\ ~format.is_yuv THEN 4 ELSE 0
        pixel_align_w == IF has_cpu_usage THEN format.pwa
                         ELSE IF is_afbc(alloc_type) THEN max(0, num_sb_align) * sb.width
                         ELSE 0
        tile_factor == IF format.bpp_afbc[plane + 1] > 32 THEN 4 ELSE 8
        afbc_tile == IF alloc_type.is_tiled
                     THEN [width |-> tile_factor * sb.width, height |-> tile_factor * sb.height]
                     ELSE sb
    IN  [width |-> GRALLOC_ALIGN(w_sub, max4(1, pixel_align_w, format.tile_size, afbc_tile.width)),
         height |-> GRALLOC_ALIGN(h_sub, max3(1, format.tile_size, afbc_tile.height))]

RECURSIVE gcd_loop(_, _)
gcd_loop(a, b) == IF b = 0 THEN a ELSE gcd_loop(b, a % b)

gcd(a, b) == IF a = b THEN a ELSE IF a < b THEN gcd_loop(b, a) ELSE gcd_loop(a, b)

lcm_larger_only(a, b) == max(a, b)

lcm(a, b) == IF a # 0 /\ b # 0 THEN (a * b) \div gcd(a, b) ELSE max(a, b)

update_yv12_stride(plane, luma_stride, stride_align, byte_stride) ==
    IF plane = 0 THEN GRALLOC_ALIGN(luma_stride, 2 * stride_align)
    ELSE luma_stride \div 2

\* One iteration of the plane loop of calc_allocation_size, the plane's
\* pixel dimensions wh and stride alignment known.  acc carries size,
\* pixel_stride and plane_info (planes numbered from 0, stored at plane + 1).
plane_layout(acc, alloc_type, format, has_cpu_usage, has_hw_usage, plane, wh, stride_align) ==
    LET linear_stride == GRALLOC_ALIGN((wh.width * format.bpp[plane + 1]) \div 8, stride_align)
        luma_stride == IF plane = 0 THEN linear_stride ELSE acc.plane_info[1].byte_stride
        byte_stride ==
            IF is_afbc(alloc_type) THEN (wh.width * format.bpp_afbc[plane + 1]) \div 8
            ELSE IF format.id = "YV12" /\ has_hw_usage /\ has_cpu_usage
                 THEN update_yv12_stride(plane, luma_stride, stride_align, linear_stride)
                 ELSE linear_stride
        pixel_stride ==
            IF plane # 0 THEN acc.pixel_stride
            ELSE IF ~is_afbc(alloc_type) /\ has_cpu_usage
                 THEN (byte_stride * 8) \div format.bpp[plane + 1]
                 ELSE 0
        sb_num == (wh.width * wh.height) \div (AFBC_PIXELS_PER_BLOCK * AFBC_PIXELS_PER_BLOCK)
        sb == get_afbc_sb_size(alloc_type, plane)
        sb_bytes == GRALLOC_ALIGN((format.bpp_afbc[plane + 1] * sb.width * sb.height) \div 8, 128)
        afbc_body == IF format.npln > 1 /\ plane < 2
                     THEN afbc_buffer_align(alloc_type.is_tiled, sb_num * sb_bytes)
                     ELSE sb_num * sb_bytes
        body_size ==
            IF is_afbc(alloc_type)
            THEN IF alloc_type.is_frontbuffer_safe
                 THEN afbc_body + afbc_buffer_align(alloc_type.is_tiled, afbc_body)
                 ELSE afbc_body
            ELSE byte_stride * wh.height
        header_size ==
            IF is_afbc(alloc_type)
            THEN afbc_buffer_align(alloc_type.is_tiled,
                                   sb_num * AFBC_HEADER_BUFFER_BYTES_PER_BLOCKENTRY)
            ELSE 0
    IN  [size |-> acc.size + body_size + header_size,
         pixel_stride |-> pixel_stride,
         plane_info |->
            [acc.plane_info EXCEPT ![plane + 1] =
                [offset |-> IF plane > 0 THEN acc.size ELSE @.offset,
                 byte_stride |-> byte_stride,
                 alloc_width |-> wh.width,
                 alloc_height |-> wh.height]]]

calc_plane(acc, width, height, alloc_type, format, has_cpu_usage, has_hw_usage, plane) ==
    plane_layout(acc, alloc_type, format, has_cpu_usage, has_hw_usage, plane,
        get_pixel_w_h(width, height, format, alloc_type, plane, has_cpu_usage),
        lcm(IF has_hw_usage THEN (IF format.is_yuv THEN 128 ELSE 64) ELSE 0,
            IF has_cpu_usage THEN (format.bpp[plane + 1] * format.pwa) \div 8 ELSE 0))

RECURSIVE calc_planes(_, _, _, _, _, _, _, _)
calc_planes(acc, width, height, alloc_type, format, has_cpu_usage, has_hw_usage, plane) ==
    IF plane >= format.npln THEN acc
    ELSE calc_planes(calc_plane(acc, width, height, alloc_type, format,
                                has_cpu_usage, has_hw_usage, plane),
                     width, height, alloc_type, format, has_cpu_usage, has_hw_usage, plane + 1)

\* plane_info is the descriptor's array as the call finds it; pixel_stride
\* is the descriptor's field as the call finds it.
calc_allocation_size(width, height, alloc_type, format, has_cpu_usage, has_hw_usage, pixel_stride, plane_info) ==
    calc_planes([size |-> 0, pixel_stride |-> pixel_stride,
                 plane_info |-> [plane_info EXCEPT ![1].offset = 0]],
                width, height, alloc_type, format, has_cpu_usage, has_hw_usage, 0)

(***************************************************************************)
(* ION heap selection and allocation (mali_gralloc_ion.cpp).               *)
(*                                                                         *)
(* A heap type is a name; ION flags and handle flags are bit sets.  m is   *)
(* the module record [ion_client, use_legacy_ion, heap_info,               *)
(* secure_heap_exists]; heap_info is the sequence of enumerated heaps      *)
(* [type, heap_id].  build names the heap the build selects for composer   *)
(* buffers: "COMPOUND_PAGE" (GRALLOC_USE_ION_COMPOUND_PAGE_HEAP), "DMA"    *)
(* (GRALLOC_USE_ION_DMA_HEAP) or "SYSTEM" (neither).                       *)
(***************************************************************************)
SZ_4K == 4096
SZ_2M == 2097152

ION_FLAGS_CACHED_SYNC == {"ION_FLAG_CACHED", "ION_FLAG_CACHED_NEEDS_SYNC"}

pick_ion_heap(m, usage, build) ==
    IF AnyBit(usage, GRALLOC_USAGE_PROTECTED)
    THEN IF m.secure_heap_exists THEN "SECURE" ELSE "INVALID"
    ELSE IF AnyBit(usage, GRALLOC_USAGE_HW_FB) THEN "FB"
    ELSE IF /\ ~AnyBit(usage, GRALLOC_USAGE_HW_VIDEO_ENCODER)
            /\ AnyBit(usage, GRALLOC_USAGE_HW_FB \cup GRALLOC_USAGE_HW_COMPOSER)
         THEN build
         ELSE "SYSTEM"

\* set_ion_flags, the *ion_flags half: the value left in *ion_flags, which
\* is the value found there unless the usage is `read often'.
set_ion_flags(heap_type, usage, ion_flags, build) ==
    IF build = "DMA" /\ heap_type = "DMA" THEN ion_flags
    ELSE IF usage \cap GRALLOC_USAGE_SW_READ_MASK = GRALLOC_USAGE_SW_READ_OFTEN
         THEN ION_FLAGS_CACHED_SYNC
         ELSE ion_flags

\* set_ion_flags, the *priv_heap_flag half.
set_priv_heap_flag(heap_type, priv_heap_flag, build) ==
    IF build = "DMA" /\ heap_type = "DMA" THEN {"USES_ION_DMA_HEAP"} ELSE priv_heap_flag

\* A do-while over the enumerated heaps: ion_alloc_fd on each heap of the
\* wanted type, in order, until one succeeds.  ok is the set of heaps the
\* kernel can serve this request from.  Yields the attempts made.
RECURSIVE try_heaps(_, _, _, _, _, _)
try_heaps(heap_info, i, type, flags, size, ok) ==
    IF i > Len(heap_info) THEN << >>
    ELSE IF heap_info[i].type = type
         THEN LET attempt == [heap_type |-> type, heap |-> heap_info[i].heap_id,
                              flags |-> flags, size |-> size,
                              ok |-> heap_info[i].heap_id \in ok]
              IN  IF attempt.ok THEN << attempt >>
                  ELSE << attempt >> \o try_heaps(heap_info, i + 1, type, flags, size, ok)
         ELSE try_heaps(heap_info, i + 1, type, flags, size, ok)

\* The attempts on the heap type `type': one per matching enumerated heap, or
\* the single request with HEAP_MASK_FROM_TYPE under the legacy API.
heap_attempts(m, type, flags, size, ok) ==
    IF m.use_legacy_ion
    THEN << [heap_type |-> type, heap |-> type, flags |-> flags, size |-> size,
             ok |-> type \in ok] >>
    ELSE try_heaps(m.heap_info, 1, type, flags, size, ok)

succeeded(attempts) == attempts # << >> /\ attempts[Len(attempts)].ok

min_pgsz_of(heap_type, size, build) ==
    IF heap_type = "SYSTEM" THEN SZ_4K
    ELSE IF heap_type \in {"SYSTEM_CONTIG", "CARVEOUT"}
         THEN (IF build = "DMA" THEN size ELSE IF build = "COMPOUND_PAGE" THEN SZ_2M ELSE SZ_4K)
    ELSE IF heap_type = "DMA" /\ build = "DMA" THEN size
    ELSE IF heap_type = "COMPOUND_PAGE" /\ build = "COMPOUND_PAGE" THEN SZ_2M
    ELSE SZ_4K

\* The same function falling back to the system heap from every heap type.
alloc_from_ion_heap_falling_back(m, usage, size, heap_type, flags, build, ok) ==
    IF m.ion_client < 0 \/ size <= 0 \/ heap_type = "INVALID"
    THEN [fd_ok |-> FALSE, attempts |-> << >>, min_pgsz |-> 0]
    ELSE
    LET first == heap_attempts(m, heap_type, flags, size, ok)
        fallback == heap_attempts(m, "SYSTEM", set_ion_flags("SYSTEM", usage, flags, build), size, ok)
    IN  IF succeeded(first)
        THEN [fd_ok |-> TRUE, attempts |-> first,
              min_pgsz |-> min_pgsz_of(heap_type, size, build)]
        ELSE IF succeeded(fallback)
        THEN [fd_ok |-> TRUE, attempts |-> first \o fallback,
              min_pgsz |-> min_pgsz_of("SYSTEM", size, build)]
        ELSE [fd_ok |-> FALSE, attempts |-> first \o fallback, min_pgsz |-> 0]

\* alloc_from_ion_heap: fd_ok tells whether a descriptor comes back (rather
\* than -1), attempts lists every ion_alloc_fd request made, in order.
alloc_from_ion_heap(m, usage, size, heap_type, flags, build, ok) ==
    IF m.ion_client < 0 \/ size <= 0 \/ heap_type = "INVALID"
    THEN [fd_ok |-> FALSE, attempts |-> << >>, min_pgsz |-> 0]
    ELSE
    LET first == heap_attempts(m, heap_type, flags, size, ok)
        system_heap_exist == \E k \in 1..Len(m.heap_info) : m.heap_info[k].type = "SYSTEM"
        fallback == heap_attempts(m, "SYSTEM", set_ion_flags("SYSTEM", usage, flags, build), size, ok)
    IN  IF succeeded(first)
        THEN [fd_ok |-> TRUE, attempts |-> first,
              min_pgsz |-> min_pgsz_of(heap_type, size, build)]
        ELSE IF heap_type = "SECURE" \/ heap_type = "SYSTEM"
        THEN [fd_ok |-> FALSE, attempts |-> first, min_pgsz |-> 0]
        ELSE IF ~m.use_legacy_ion /\ ~system_heap_exist
        THEN [fd_ok |-> FALSE, attempts |-> first, min_pgsz |-> 0]
        ELSE IF succeeded(fallback)
        THEN [fd_ok |-> TRUE, attempts |-> first \o fallback,
              min_pgsz |-> min_pgsz_of("SYSTEM", size, build)]
        ELSE [fd_ok |-> FALSE, attempts |-> first \o fallback, min_pgsz |-> 0]

\* check_buffers_sharable.  usages is the batch's usages in order;
\* stack_flags[i] is what the uninitialised local ion_flags of iteration i
\* holds before set_ion_flags runs.
RECURSIVE sharable_from(_, _, _, _, _, _, _)
sharable_from(m, usages, stack_flags, build, i, shared_backend_heap_type, shared_ion_flags) ==
    IF i > Len(usages) THEN TRUE
    ELSE LET heap_type == pick_ion_heap(m, usages[i], build)
             ion_flags == set_ion_flags(heap_type, usages[i], stack_flags[i], build)
         IN  IF heap_type = "INVALID" THEN FALSE
             ELSE IF shared_backend_heap_type # "INVALID"
             THEN IF shared_backend_heap_type # heap_type \/ shared_ion_flags # ion_flags
                  THEN FALSE
                  ELSE sharable_from(m, usages, stack_flags, build, i + 1,
                                     shared_backend_heap_type, shared_ion_flags)
             ELSE sharable_from(m, usages, stack_flags, build, i + 1, heap_type, ion_flags)

check_buffers_sharable(m, usages, stack_flags, build) ==
    IF Len(usages) <= 1 THEN FALSE
    ELSE sharable_from(m, usages, stack_flags, build, 1, "INVALID", {})

\* get_max_buffer_descriptor_index over the batch's sizes (1-based).
RECURSIVE max_index_from(_, _, _, _)
max_index_from(sizes, i, max_buffer_index, max_buffer_size) ==
    IF i > Len(sizes) THEN max_buffer_index
    ELSE IF max_buffer_size < sizes[i]
         THEN max_index_from(sizes, i + 1, i, sizes[i])
         ELSE max_index_from(sizes, i + 1, max_buffer_index, max_buffer_size)

\* The index of the first descriptor, whatever the sizes.
first_buffer_descriptor_index(sizes) == 1

get_max_buffer_descriptor_index(sizes) == max_index_from(sizes, 1, 1, 0)

(***************************************************************************)
(* Capability probe (determine_format_capabilities).  env is what the      *)
(* probe finds: for each driver library whether the capability symbol was  *)
(* found and its value, and the build's static configuration.              *)
(***************************************************************************)
static_dpu_caps(env) ==
    {"AFBC_YUV_NOWRITE"}
    \cup (IF env.display_version >= 500 THEN {"OPTIONS_PRESENT", "AFBC_BASIC"} ELSE {})
    \cup (IF env.display_version >= 550 THEN {"AFBC_SPLITBLK"} ELSE {})
    \cup (IF env.display_version = 71
          THEN {"OPTIONS_PRESENT", "AFBC_BASIC", "AFBC_SPLITBLK", "AFBC_WIDEBLK",
                "AFBC_TILED_HEADERS", "AFBC_WIDEBLK_YUV_DISABLE"}
          ELSE {})

static_gpu_caps(env) ==
    IF ~env.gpu_afbc_basic THEN {}
    ELSE {"OPTIONS_PRESENT", "AFBC_BASIC", "AFBC_YUV_NOWRITE"}
         \cup (IF env.gpu_splitblk THEN {"AFBC_SPLITBLK"} ELSE {})
         \cup (IF env.gpu_wideblk THEN {"AFBC_SPLITBLK", "AFBC_WIDEBLK"} ELSE {})
         \cup (IF ~env.gpu_yuv_wideblk THEN {"AFBC_WIDEBLK_YUV_DISABLE"} ELSE {})
         \cup (IF env.gpu_tiled THEN {"AFBC_SPLITBLK", "AFBC_WIDEBLK", "AFBC_TILED_HEADERS"} ELSE {})

static_vpu_caps(env) ==
    (IF env.video_version \in {500, 550}
     THEN {"OPTIONS_PRESENT", "AFBC_BASIC", "AFBC_YUV_NOREAD"} ELSE {})
    \cup (IF env.video_version = 61
          THEN {"OPTIONS_PRESENT", "AFBC_BASIC", "AFBC_TILED_HEADERS"} ELSE {})

\* The four masks the probe body leaves behind.
determine_format_capabilities(env) ==
    LET dpu == IF env.dpu_lib.found THEN env.dpu_lib.caps ELSE static_dpu_caps(env)
        gpu_read == IF env.gpu_lib.found THEN env.gpu_lib.caps ELSE {}
        gpu == IF "OPTIONS_PRESENT" \notin gpu_read
               THEN gpu_read \cup static_gpu_caps(env) ELSE gpu_read
        vpu == IF env.vpu_lib.found THEN env.vpu_lib.caps ELSE static_vpu_caps(env)
        strip(mask) == IF env.no_external_afbc
                       THEN mask \ MALI_GRALLOC_FORMAT_CAPABILITY_AFBCENABLE_MASK
                       ELSE mask
    IN  [dpu |-> strip(dpu), gpu |-> strip(gpu), vpu |-> strip(vpu), cam |-> strip({})]

NoLib == [found |-> FALSE, caps |-> {}]

\* The environments the probe is run in.
ProbeEnvs ==
    { \* no driver library, a build without AFBC
      [dpu_lib |-> NoLib, gpu_lib |-> NoLib, vpu_lib |-> NoLib, display_version |-> 0,
       gpu_afbc_basic |-> FALSE, gpu_splitblk |-> FALSE, gpu_wideblk |-> FALSE,
       gpu_yuv_wideblk |-> FALSE, gpu_tiled |-> FALSE, video_version |-> 0,
       no_external_afbc |-> FALSE],
      \* no driver library, static AFBC configuration (DP550, V550)
      [dpu_lib |-> NoLib, gpu_lib |-> NoLib, vpu_lib |-> NoLib, display_version |-> 550,
       gpu_afbc_basic |-> TRUE, gpu_splitblk |-> TRUE, gpu_wideblk |-> FALSE,
       gpu_yuv_wideblk |-> FALSE, gpu_tiled |-> FALSE, video_version |-> 550,
       no_external_afbc |-> FALSE],
      \* driver libraries export their capabilities
      [dpu_lib |-> [found |-> TRUE,
                    caps |-> {"OPTIONS_PRESENT", "AFBC_BASIC", "AFBC_SPLITBLK",
                              "AFBC_WIDEBLK", "AFBC_TILED_HEADERS"}],
       gpu_lib |-> [found |-> TRUE,
                    caps |-> {"OPTIONS_PRESENT", "AFBC_BASIC", "AFBC_SPLITBLK", "AFBC_WIDEBLK",
                              "AFBC_TILED_HEADERS", "AFBC_MULTIPLANE_READ", "AFBC_DOUBLE_BODY",
                              "PIXFMT_RGBA1010102", "PIXFMT_RGBA16161616"}],
       vpu_lib |-> [found |-> TRUE,
                    caps |-> {"OPTIONS_PRESENT", "AFBC_BASIC", "AFBC_TILED_HEADERS"}],
       display_version |-> 71, gpu_afbc_basic |-> TRUE, gpu_splitblk |-> TRUE,
       gpu_wideblk |-> TRUE, gpu_yuv_wideblk |-> FALSE, gpu_tiled |-> TRUE,
       video_version |-> 61, no_external_afbc |-> FALSE] }

(***************************************************************************)
(* The per-descriptor loop body of mali_gralloc_buffer_allocate: format    *)
(* selection, catalog lookup, allocation type, single-plane fallback,      *)
(* validation, size.  A descriptor is a record; usage is producer_usage |  *)
(* consumer_usage.                                                         *)
(***************************************************************************)
ZeroPlane == [offset |-> 0, byte_stride |-> 0, alloc_width |-> 0, alloc_height |-> 0]

\* A freshly created buffer descriptor for a request.
Descriptor(hal_format, format_type, usage, width, height, layer_count) ==
    [hal_format |-> hal_format, format_type |-> format_type, usage |-> usage,
     width |-> width, height |-> height, layer_count |-> layer_count,
     internal_format |-> ZeroFormat, alloc_format |-> ZeroFormat, size |-> 0,
     pixel_stride |-> 0, plane_info |-> [p \in 1..MAX_PLANES |-> ZeroPlane]]

\* The descriptor loop body, stage by stage.  rejected names the check that
\* returned -EINVAL ("" when none did); d is the descriptor as the loop body
\* leaves it.
descriptor_sized(d, internal_format, calc) ==
    [rejected |-> "",
     d |-> [d EXCEPT
              !.size = IF d.layer_count > 1
                       THEN d.layer_count *
                            (IF AnyBit(internal_format.ext, MALI_GRALLOC_INTFMT_AFBCENABLE_MASK)
                             THEN GRALLOC_ALIGN(calc.size,
                                      IF "AFBC_TILED_HEADERS" \in internal_format.ext
                                      THEN 4096 ELSE 128)
                             ELSE calc.size)
                       ELSE calc.size,
              !.pixel_stride = calc.pixel_stride,
              !.plane_info = calc.plane_info]]

\* From validate_format on; format is the catalog entry of the allocation
\* format, dims the adjusted dimensions.
descriptor_validated(d, internal_format, alloc_type, format, dims) ==
    IF ~validate_format(format, alloc_type, d.height)
    THEN [rejected |-> "validate_format", d |-> d]
    ELSE descriptor_sized(d, internal_format,
             calc_allocation_size(dims.width, dims.height, alloc_type, format,
                 AnyBit(d.usage, GRALLOC_USAGE_SW_READ_MASK \cup GRALLOC_USAGE_SW_WRITE_MASK),
                 d.usage \ (GRALLOC_USAGE_PRIVATE_MASK \cup GRALLOC_USAGE_SW_READ_MASK
                            \cup GRALLOC_USAGE_SW_WRITE_MASK) # {},
                 d.pixel_stride, d.plane_info))

\* The same step, the descriptor's internal_format updated with the
\* allocation format's base id.
descriptor_fallen_back_updating_internal(d, internal_format, alloc_type, format) ==
    descriptor_validated(
        [d EXCEPT !.alloc_format = [fmt |-> format.id, ext |-> internal_format.ext],
                  !.internal_format = [fmt |-> format.id, ext |-> internal_format.ext]],
        internal_format,
        IF format.npln = 1 THEN [alloc_type EXCEPT !.is_multi_plane = FALSE] ELSE alloc_type,
        format,
        mali_gralloc_adjust_dimensions(internal_format, d.usage, d.width, d.height))

\* After the fallback: alloc_format is set and a single-plane allocation
\* format clears is_multi_plane.
descriptor_fallen_back(d, internal_format, alloc_type, format) ==
    descriptor_validated(
        [d EXCEPT !.alloc_format = [fmt |-> format.id, ext |-> internal_format.ext]],
        internal_format,
        IF format.npln = 1 THEN [alloc_type EXCEPT !.is_multi_plane = FALSE] ELSE alloc_type,
        format,
        mali_gralloc_adjust_dimensions(internal_format, d.usage, d.width, d.height))

descriptor_fallback(d, internal_format, alloc_type, fb) ==
    IF ~fb.res THEN [rejected |-> "afbc_format_fallback", d |-> d]
    ELSE descriptor_fallen_back(d, internal_format, alloc_type, formats[fb.format_idx])

descriptor_typed(d, caps, internal_format, format_idx, at) ==
    IF ~at.rval THEN [rejected |-> "get_alloc_type", d |-> d]
    ELSE descriptor_fallback(d, internal_format, at.type,
             IF at.type.primary_type # "UNCOMPRESSED"
             THEN afbc_format_fallback(format_idx, d.usage, ~at.type.is_multi_plane, caps)
             ELSE [res |-> TRUE, format_idx |-> format_idx])

descriptor_indexed(d, caps, internal_format, format_idx) ==
    IF format_idx > num_formats THEN [rejected |-> "format_lookup", d |-> d]
    ELSE descriptor_typed(d, caps, internal_format, format_idx,
                          get_alloc_type(internal_format, format_idx, d.usage))

descriptor_selected(d, caps, internal_format) ==
    IF internal_format = ZeroFormat THEN [rejected |-> "select_format", d |-> d]
    ELSE descriptor_indexed(d, caps, internal_format, format_scan(internal_format.fmt, 1))

prepare_descriptor(d, caps, oob) ==
    descriptor_selected(
        [d EXCEPT !.internal_format =
            mali_gralloc_select_format(d.hal_format, d.format_type, d.usage,
                                       d.width * d.height, caps, oob)],
        caps,
        mali_gralloc_select_format(d.hal_format, d.format_type, d.usage,
                                   d.width * d.height, caps, oob))

\* The descriptor loop from descriptor i on: stops at the first rejection.
RECURSIVE prepare_descriptors(_, _, _, _)
descriptors_from_ignoring_rejection(descriptors, i, caps, oob, r) ==
    prepare_descriptors([descriptors EXCEPT ![i] = r.d], i + 1, caps, oob)

descriptors_from(descriptors, i, caps, oob, r) ==
    IF r.rejected # ""
    THEN [rejected |-> r.rejected, at |-> i, descriptors |-> [descriptors EXCEPT ![i] = r.d]]
    ELSE prepare_descriptors([descriptors EXCEPT ![i] = r.d], i + 1, caps, oob)

prepare_descriptors(descriptors, i, caps, oob) ==
    IF i > Len(descriptors) THEN [rejected |-> "", at |-> 0, descriptors |-> descriptors]
    ELSE descriptors_from(descriptors, i, caps, oob,
                          prepare_descriptor(descriptors[i], caps, oob))

(***************************************************************************)
(* Handles, descriptors of the kernel (fds) and CPU mappings.              *)
(*                                                                         *)
(* res is the record [hnd, fds, maps]: hnd[k] is the private_handle_t      *)
(* object k, fds[f] the file descriptor number f as the kernel handed it   *)
(* out (which backing allocation it refers to, how often it was closed),   *)
(* maps[a] the mapping at address a.  NULL is 0; a handle slot holds 0 or  *)
(* the number of a handle object.                                          *)
(***************************************************************************)
NULL == 0

\* A private_handle_t after memset(hnd, 0, sizeof(*hnd)).
ZeroHandle ==
    [flags |-> {}, size |-> 0, min_pgsz |-> 0, usage |-> {}, share_fd |-> 0, base |-> NULL,
     req_format |-> ZeroFormat, internal_format |-> ZeroFormat, alloc_format |-> ZeroFormat,
     width |-> 0, height |-> 0, stride |-> 0, backing_store_size |-> 0,
     backing_store_id |-> 0, layer_count |-> 0,
     plane_info |-> [p \in 1..MAX_PLANES |-> ZeroPlane]]

\* The ION constructor of private_handle_t.
private_handle_t(flags, d, min_pgsz, share_fd, backing_store_size) ==
    [flags |-> flags, size |-> d.size, min_pgsz |-> min_pgsz, usage |-> d.usage,
     share_fd |-> share_fd, base |-> NULL, req_format |-> d.hal_format,
     internal_format |-> d.internal_format, alloc_format |-> d.alloc_format,
     width |-> d.width, height |-> d.height, stride |-> d.pixel_stride,
     backing_store_size |-> backing_store_size, backing_store_id |-> 0,
     layer_count |-> d.layer_count, plane_info |-> d.plane_info]

\* close(fd) and munmap(base) as the kernel sees them.
close(fds, fd) == [fds EXCEPT ![fd].closes = @ + 1]

munmap(maps, base) == [maps EXCEPT ![base].unmaps = @ + 1]

\* The same function with the close() call left out.
mali_gralloc_ion_free_without_close(res, k) ==
    LET h == res.hnd[k]
    IN  IF "FRAMEBUFFER" \in h.flags THEN res
        ELSE IF "USES_ION" \in h.flags
        THEN [hnd |-> [res.hnd EXCEPT ![k] = ZeroHandle],
              fds |-> res.fds,
              maps |-> IF h.base # NULL THEN munmap(res.maps, h.base) ELSE res.maps]
        ELSE res

mali_gralloc_ion_free(res, k) ==
    LET h == res.hnd[k]
    IN  IF "FRAMEBUFFER" \in h.flags THEN res
        ELSE IF "USES_ION" \in h.flags
        THEN [hnd |-> [res.hnd EXCEPT ![k] = ZeroHandle],
              fds |-> close(res.fds, h.share_fd),
              maps |-> IF h.base # NULL THEN munmap(res.maps, h.base) ELSE res.maps]
        ELSE res

RECURSIVE ion_free_from(_, _, _)
ion_free_from(res, slots, i) ==
    IF i > Len(slots) THEN res
    ELSE ion_free_from(IF slots[i] # NULL THEN mali_gralloc_ion_free(res, slots[i]) ELSE res,
                       slots, i + 1)

mali_gralloc_ion_free_internal(res, slots) == ion_free_from(res, slots, 1)

\* mali_gralloc_buffer_free_internal: every slot is freed, without a NULL
\* check (the attribute region it also frees is not part of res).
RECURSIVE buffer_free_from(_, _, _)
buffer_free_from(res, slots, i) ==
    IF i > Len(slots) THEN res
    ELSE buffer_free_from(mali_gralloc_ion_free(res, slots[i]), slots, i + 1)

mali_gralloc_buffer_free_internal(res, slots) == buffer_free_from(res, slots, 1)

(***************************************************************************)
(* State.                                                                  *)
(***************************************************************************)
VARIABLES
    build,               \* the build's composer heap choice (see pick_ion_heap)
    m,                   \* private_module_t: ION client and enumerated heaps
    runtime_caps_read,   \* the one-time-initialisation flag
    dpu_runtime_caps, gpu_runtime_caps, vpu_runtime_caps, cam_runtime_caps,
    probe_runs,          \* how often the probe body has run
    counter,             \* getUniqueId's static counter
    pc,                  \* position of the allocate call
    descriptors,         \* the batch's buffer descriptors
    pHandle,             \* the output handle slots (outBuffers)
    hnd,                 \* the private_handle_t objects created by the call
    fds,                 \* file descriptors handed out by the kernel
    maps,                \* CPU mappings made
    ion_log,             \* every ion_alloc_fd request made, in order
    ion,                 \* locals of mali_gralloc_ion_allocate
    shared,              \* *shared_backend
    result,              \* return value of mali_gralloc_allocate
    fail_site,           \* the step an error return came from
    table_reads,         \* formats[] indices read by the unchecked scans
    backing_store_id,    \* the batch id drawn for a shared batch
    caps_init_mutex,     \* holder of caps_init_mutex (0: unlocked)
    tpc,                 \* per thread: position in a capability-using call
    tcall,               \* per thread: the function it called
    ipc,                 \* per allocating thread: position in the id loop
    ibatch,              \* per allocating thread: its batch and local id
    handles,             \* the handles finished, with their backing stores
    drawn,               \* ids drawn from the counter so far
    backings,            \* backing allocations made so far
    sel,                 \* one format selection: request and outcome
    geo,                 \* one geometry computation: request and outcome
    lk                   \* one buffer and the lock requests made on it

modVars == << build, m >>

capsVars == << runtime_caps_read, dpu_runtime_caps, gpu_runtime_caps, vpu_runtime_caps,
               cam_runtime_caps, probe_runs >>

allocVars == << pc, descriptors, pHandle, hnd, fds, maps, ion_log, ion, shared, result,
                fail_site, table_reads, backing_store_id >>

lockVars == << caps_init_mutex, tpc, tcall >>

idVars == << ipc, ibatch, handles, drawn, backings >>

callVars == << sel, geo, lk >>

vars == << modVars, capsVars, counter, allocVars, lockVars, idVars, callVars >>

(***************************************************************************)
(* Bounds and input domains.                                               *)
(***************************************************************************)
MaxBatch == 2

\* The scaled-down width of the uint32_t id counter.
CounterWrap == 4

Builds == {"SYSTEM", "DMA", "COMPOUND_PAGE"}

\* What open_and_query_ion can leave in the module when it succeeds.
ModuleConfigs ==
    { [ion_client |-> 1, use_legacy_ion |-> TRUE, heap_info |-> << >>,
       secure_heap_exists |-> TRUE],
      [ion_client |-> 1, use_legacy_ion |-> TRUE, heap_info |-> << >>,
       secure_heap_exists |-> FALSE],
      [ion_client |-> 1, use_legacy_ion |-> FALSE,
       heap_info |-> << [type |-> "SYSTEM", heap_id |-> "heap0"],
                        [type |-> "SECURE", heap_id |-> "heap1"] >>,
       secure_heap_exists |-> TRUE],
      [ion_client |-> 1, use_legacy_ion |-> FALSE,
       heap_info |-> << [type |-> "DMA", heap_id |-> "heap0"],
                        [type |-> "SYSTEM", heap_id |-> "heap1"] >>,
       secure_heap_exists |-> FALSE] }

UnopenedModule ==
    [ion_client |-> -1, use_legacy_ion |-> FALSE, heap_info |-> << >>,
     secure_heap_exists |-> FALSE]

\* The heaps a request can be addressed to.
HeapKeys(mod) ==
    IF mod.use_legacy_ion THEN {"SECURE", "SYSTEM", build}
    ELSE {mod.heap_info[k].heap_id : k \in 1..Len(mod.heap_info)}

\* What the uninitialised stack slot of check_buffers_sharable can hold.
StackGarbage == {{}, ION_FLAGS_CACHED_SYNC}

\* What lies behind the end of formats[].
OobEntries ==
    { FormatInfo("0", 0, 0, 0, <<0, 0, 0>>, <<0, 0, 0>>, 0, 0, 0, FALSE, FALSE, FALSE, FALSE, FALSE, 0),
      FormatInfo("?", 1, 3, 8, <<8, 0, 0>>, <<8, 0, 0>>, 1, 1, 1, FALSE, TRUE, TRUE, TRUE, FALSE, 1) }

CPU_OFTEN == GRALLOC_USAGE_SW_READ_OFTEN \cup GRALLOC_USAGE_SW_WRITE_OFTEN

\* The requests batches are built from.
DescChoices ==
    { Descriptor(BaseFormat("RGBA_8888"), "USAGE",
                 GRALLOC_USAGE_HW_TEXTURE \cup GRALLOC_USAGE_HW_COMPOSER, 64, 64, 1),
      Descriptor(BaseFormat("RGBA_8888"), "USAGE",
                 GRALLOC_USAGE_HW_TEXTURE \cup GRALLOC_USAGE_HW_COMPOSER, 32, 32, 1),
      Descriptor(BaseFormat("RGBA_8888"), "USAGE", CPU_OFTEN, 32, 16, 1),
      Descriptor(BaseFormat("NV12"), "USAGE",
                 GRALLOC_USAGE_HW_TEXTURE \cup GRALLOC_USAGE_PROTECTED, 32, 32, 1),
      \* not in the catalog
      Descriptor(BaseFormat("YCbCr_422_888"), "USAGE", GRALLOC_USAGE_HW_TEXTURE, 16, 16, 1),
      \* YUV with NO_AFBC
      Descriptor(BaseFormat("NV12"), "USAGE",
                 GRALLOC_USAGE_HW_TEXTURE \cup MALI_GRALLOC_USAGE_NO_AFBC, 16, 16, 1),
      \* a private format whose modifiers get_alloc_type refuses
      Descriptor([fmt |-> "RGBA_8888", ext |-> {"AFBC_BASIC", "AFBC_EXTRAWIDEBLK"}], "USAGE",
                 GRALLOC_USAGE_HW_TEXTURE \cup MALI_GRALLOC_USAGE_PRIVATE_FORMAT, 16, 16, 1),
      \* a BLOB of height 2
      Descriptor(BaseFormat("BLOB"), "USAGE", CPU_OFTEN, 64, 2, 1) }

\* All batches of 1..MaxBatch requests.
Batches == UNION { [1..n -> DescChoices] : n \in 1..MaxBatch }

(***************************************************************************)
(* One call of the allocate entry point: mali_gralloc_allocate ->          *)
(* mali_gralloc_buffer_allocate -> mali_gralloc_ion_allocate.              *)
(***************************************************************************)
CapsUnread ==
    /\ runtime_caps_read = FALSE
    /\ dpu_runtime_caps = {} /\ gpu_runtime_caps = {}
    /\ vpu_runtime_caps = {} /\ cam_runtime_caps = {}
    /\ probe_runs = 0

NoAllocation ==
    /\ pc = "idle"
    /\ descriptors = << >>
    /\ pHandle = << >>
    /\ hnd = << >>
    /\ fds = << >>
    /\ maps = << >>
    /\ ion_log = << >>
    /\ ion = [i |-> 0, shared_fd |-> 0, max_buffer_index |-> 0, ion_flags |-> {},
              priv_heap_flag |-> {}, min_pgsz |-> 0]
    /\ shared = FALSE
    /\ result = ""
    /\ fail_site = ""
    /\ table_reads = {}
    /\ backing_store_id = 0

NoThreads ==
    /\ caps_init_mutex = 0
    /\ tpc = << >> /\ tcall = << >>
    /\ ipc = << >> /\ ibatch = << >>
    /\ handles = {}
    /\ drawn = 0
    /\ backings = 0

NoSelection ==
    /\ sel = [pc |-> "idle"]
    /\ geo = [pc |-> "idle"]
    /\ lk = [pc |-> "idle"]

Init ==
    /\ build \in Builds
    /\ m = UnopenedModule
    /\ counter = 0
    /\ CapsUnread /\ NoAllocation /\ NoThreads /\ NoSelection

current_caps ==
    [dpu |-> dpu_runtime_caps, gpu |-> gpu_runtime_caps, vpu |-> vpu_runtime_caps,
     cam |-> cam_runtime_caps]

resources == [hnd |-> hnd, fds |-> fds, maps |-> maps]

\* The requests of one alloc_from_ion_heap call as they enter the log.
logged(attempts, i) ==
    [k \in 1..Len(attempts) |->
        [desc |-> i, heap_type |-> attempts[k].heap_type, heap |-> attempts[k].heap,
         flags |-> attempts[k].flags, size |-> attempts[k].size, ok |-> attempts[k].ok]]

\* An error return of the entry point from the step `site', the kernel's
\* and the handles' state being res.
fail(site, res) ==
    /\ pc' = "done"
    /\ result' = "GRALLOC1_ERROR_NO_RESOURCES"
    /\ fail_site' = site
    /\ hnd' = res.hnd
    /\ fds' = res.fds
    /\ maps' = res.maps

\* The process id of the allocator process.
getpid == 1

getUniqueId_without_advance(c) == [id |-> getpid * CounterWrap + c, counter |-> c]

\* getUniqueId: the process id above the counter's value, and the counter
\* advanced (an atomic fetch-and-add on a counter of CounterWrap values).
getUniqueId(c) == [id |-> getpid * CounterWrap + c, counter |-> (c + 1) % CounterWrap]

\* mali_gralloc_allocate up to the call of mali_gralloc_ion_allocate: the
\* output slots are cleared, the capabilities probed on first use, and every
\* descriptor's format and size worked out.
Allocate(batch, env, oob) ==
    /\ pc = "idle"
    /\ \E caps \in {IF runtime_caps_read THEN current_caps
                      ELSE determine_format_capabilities(env)} :
       \E prep \in {prepare_descriptors(batch, 1, caps, oob)} :
       LET seen == IF prep.at = 0 THEN Len(batch) ELSE prep.at
       IN  /\ runtime_caps_read' = TRUE
           /\ dpu_runtime_caps' = caps.dpu
           /\ gpu_runtime_caps' = caps.gpu
           /\ vpu_runtime_caps' = caps.vpu
           /\ cam_runtime_caps' = caps.cam
           /\ probe_runs' = IF runtime_caps_read THEN probe_runs ELSE probe_runs + 1
           /\ descriptors' = prep.descriptors
           /\ pHandle' = [i \in 1..Len(batch) |-> NULL]
           /\ hnd' = [i \in 1..Len(batch) |-> ZeroHandle]
           /\ table_reads' = UNION { select_format_table_reads(batch[i].hal_format,
                                         batch[i].format_type, batch[i].usage) : i \in 1..seen }
           /\ IF prep.rejected # ""
              THEN /\ pc' = "done"
                   /\ result' = "GRALLOC1_ERROR_NO_RESOURCES"
                   /\ fail_site' = prep.rejected
              ELSE /\ pc' = "ion_allocate"
                   /\ UNCHANGED << result, fail_site >>
    /\ UNCHANGED << modVars, counter, fds, maps, ion_log, ion, shared, backing_store_id >>
    /\ UNCHANGED << lockVars, idVars, callVars >>

\* open_and_query_ion, run when the module has no ION client yet.
OpenIon(opened, cfg) ==
    /\ pc = "ion_allocate"
    /\ m.ion_client < 0
    /\ IF opened
       THEN /\ m' = cfg
            /\ UNCHANGED allocVars
       ELSE /\ fail("open_and_query_ion", resources)
            /\ UNCHANGED << m, descriptors, pHandle, ion_log, ion, shared, table_reads,
                            backing_store_id >>
    /\ UNCHANGED << build, capsVars, counter >>
    /\ UNCHANGED << lockVars, idVars, callVars >>

\* check_buffers_sharable and, for a shareable batch, the one allocation.
IonBegin(stack_flags, ok) ==
    /\ pc = "ion_allocate"
    /\ m.ion_client >= 0
    /\ LET N == Len(descriptors)
           usages == [i \in 1..N |-> descriptors[i].usage]
           sizes == [i \in 1..N |-> descriptors[i].size]
           sh == check_buffers_sharable(m, usages, stack_flags, build)
           max_buffer_index == get_max_buffer_descriptor_index(sizes)
           usage == descriptors[max_buffer_index].usage
           heap_type == pick_ion_heap(m, usage, build)
           ion_flags == set_ion_flags(heap_type, usage, {}, build)
           priv_heap_flag == set_priv_heap_flag(heap_type, {}, build)
           a == alloc_from_ion_heap(m, usage, descriptors[max_buffer_index].size, heap_type,
                                    ion_flags, build, ok)
       IN  /\ shared' = sh
           /\ IF ~sh
              THEN /\ pc' = "nonshared_loop"
                   /\ ion' = [ion EXCEPT !.i = 1]
                   /\ UNCHANGED << hnd, fds, maps, ion_log, result, fail_site >>
              ELSE IF heap_type = "INVALID"
              THEN /\ fail("pick_ion_heap", resources)
                   /\ UNCHANGED << ion, ion_log >>
              ELSE /\ ion_log' = ion_log \o logged(a.attempts, max_buffer_index)
                   /\ IF ~a.fd_ok
                      THEN /\ fail("alloc_from_ion_heap", resources)
                           /\ UNCHANGED ion
                      ELSE /\ fds' = Append(fds, [alloc |-> Len(ion_log'), closes |-> 0])
                           /\ ion' = [i |-> 1, shared_fd |-> Len(fds'),
                                      max_buffer_index |-> max_buffer_index,
                                      ion_flags |-> ion_flags,
                                      priv_heap_flag |-> priv_heap_flag,
                                      min_pgsz |-> a.min_pgsz]
                           /\ pc' = "shared_loop"
                           /\ UNCHANGED << hnd, maps, result, fail_site >>
    /\ UNCHANGED << modVars, capsVars, counter, descriptors, pHandle, table_reads,
                    backing_store_id >>
    /\ UNCHANGED << lockVars, idVars, callVars >>

\* One iteration of the shared path's loop: dup (except for the descriptor
\* that owns the allocation), handle creation, slot assignment.
SharedStep(dup_ok, new_ok) ==
    /\ pc = "shared_loop"
    /\ LET i == ion.i
           N == Len(descriptors)
           d == descriptors[i]
           is_max == (i = ion.max_buffer_index)
           dup_fds == Append(fds, [alloc |-> fds[ion.shared_fd].alloc, closes |-> 0])
           fds1 == IF is_max THEN fds ELSE dup_fds
           tmp_fd == IF is_max THEN ion.shared_fd ELSE Len(dup_fds)
           early == IF i < ion.max_buffer_index THEN close(fds, ion.shared_fd) ELSE fds
           late == IF i < ion.max_buffer_index
                   THEN close(close(fds1, tmp_fd), ion.shared_fd)
                   ELSE close(fds1, tmp_fd)
       IN  IF ~is_max /\ ~dup_ok
           THEN /\ fail("dup", mali_gralloc_ion_free_internal(
                                   [hnd |-> hnd, fds |-> early, maps |-> maps], pHandle))
                /\ UNCHANGED << pHandle, ion >>
           ELSE IF ~new_ok
           THEN /\ fail("new private_handle_t", mali_gralloc_ion_free_internal(
                                   [hnd |-> hnd, fds |-> late, maps |-> maps], pHandle))
                /\ UNCHANGED << pHandle, ion >>
           ELSE /\ fds' = fds1
                /\ hnd' = [hnd EXCEPT ![i] =
                              private_handle_t({"USES_ION"} \cup ion.priv_heap_flag, d,
                                  ion.min_pgsz, tmp_fd,
                                  descriptors[ion.max_buffer_index].size)]
                /\ pHandle' = [pHandle EXCEPT ![i] = i]
                /\ ion' = [ion EXCEPT !.i = IF i = N THEN 1 ELSE i + 1]
                /\ pc' = IF i = N THEN "map_loop" ELSE "shared_loop"
                /\ UNCHANGED << maps, result, fail_site >>
    /\ UNCHANGED << modVars, capsVars, counter, descriptors, ion_log, shared, table_reads,
                    backing_store_id >>
    /\ UNCHANGED << lockVars, idVars, callVars >>

\* One iteration of the non-shared path's loop: heap choice, allocation,
\* handle creation, slot assignment.
NonSharedStep(ok, new_ok) ==
    /\ pc = "nonshared_loop"
    /\ LET i == ion.i
           N == Len(descriptors)
           d == descriptors[i]
           heap_type == pick_ion_heap(m, d.usage, build)
           ion_flags == set_ion_flags(heap_type, d.usage, ion.ion_flags, build)
           priv_heap_flag == set_priv_heap_flag(heap_type, ion.priv_heap_flag, build)
           a == alloc_from_ion_heap(m, d.usage, d.size, heap_type, ion_flags, build, ok)
           log1 == ion_log \o logged(a.attempts, i)
           fds1 == Append(fds, [alloc |-> Len(log1), closes |-> 0])
           shared_fd == Len(fds1)
       IN  IF heap_type = "INVALID"
           THEN /\ fail("pick_ion_heap", mali_gralloc_ion_free_internal(resources, pHandle))
                /\ UNCHANGED << pHandle, ion, ion_log >>
           ELSE /\ ion_log' = log1
                /\ IF ~a.fd_ok
                   THEN /\ fail("alloc_from_ion_heap",
                                mali_gralloc_ion_free_internal(resources, pHandle))
                        /\ UNCHANGED << pHandle, ion >>
                   ELSE IF ~new_ok
                   THEN /\ fail("new private_handle_t", mali_gralloc_ion_free_internal(
                                   [hnd |-> hnd, fds |-> close(fds1, shared_fd), maps |-> maps],
                                   pHandle))
                        /\ UNCHANGED << pHandle, ion >>
                   ELSE /\ fds' = fds1
                        /\ hnd' = [hnd EXCEPT ![i] =
                                      private_handle_t({"USES_ION"} \cup priv_heap_flag, d,
                                                       a.min_pgsz, shared_fd, d.size)]
                        /\ pHandle' = [pHandle EXCEPT ![i] = i]
                        /\ ion' = [i |-> IF i = N THEN 1 ELSE i + 1, shared_fd |-> shared_fd,
                                   max_buffer_index |-> ion.max_buffer_index,
                                   ion_flags |-> ion_flags, priv_heap_flag |-> priv_heap_flag,
                                   min_pgsz |-> a.min_pgsz]
                        /\ pc' = IF i = N THEN "map_loop" ELSE "nonshared_loop"
                        /\ UNCHANGED << maps, result, fail_site >>
    /\ UNCHANGED << modVars, capsVars, counter, descriptors, shared, table_reads,
                    backing_store_id >>
    /\ UNCHANGED << lockVars, idVars, callVars >>

\* One iteration of the mapping loop; after the last one
\* mali_gralloc_ion_allocate returns 0 and a shared batch draws its id.
MapStep(map_ok) ==
    /\ pc = "map_loop"
    /\ LET i == ion.i
           N == Len(descriptors)
           d == descriptors[i]
           h == hnd[pHandle[i]]
           protected == AnyBit(d.usage, GRALLOC_USAGE_PROTECTED)
           maps1 == Append(maps, [fd |-> h.share_fd, size |-> d.size, unmaps |-> 0])
           uid == getUniqueId(counter)
       IN  IF ~protected /\ ~map_ok
           THEN /\ fail("mmap", mali_gralloc_ion_free_internal(resources, pHandle))
                /\ UNCHANGED << ion, counter, backing_store_id >>
           ELSE /\ maps' = IF protected THEN maps ELSE maps1
                /\ hnd' = IF protected THEN hnd
                          ELSE [hnd EXCEPT ![pHandle[i]].base = Len(maps1)]
                /\ ion' = [ion EXCEPT !.i = IF i = N THEN 1 ELSE i + 1]
                /\ pc' = IF i = N THEN "attr_loop" ELSE "map_loop"
                /\ IF i = N /\ shared
                   THEN /\ backing_store_id' = uid.id
                        /\ counter' = uid.counter
                   ELSE UNCHANGED << counter, backing_store_id >>
                /\ UNCHANGED << fds, result, fail_site >>
    /\ UNCHANGED << modVars, capsVars, descriptors, pHandle, ion_log, shared, table_reads >>
    /\ UNCHANGED << lockVars, idVars, callVars >>

\* One iteration of the handle loop of mali_gralloc_buffer_allocate: the
\* attribute region and the backing store id; after the last one the entry
\* point returns.
AttrStep(attr_ok) ==
    /\ pc = "attr_loop"
    /\ LET i == ion.i
           N == Len(descriptors)
           uid == getUniqueId(counter)
       IN  IF ~attr_ok
           THEN /\ fail("gralloc_buffer_attr_allocate",
                        mali_gralloc_buffer_free_internal(resources, pHandle))
                /\ UNCHANGED << ion, counter >>
           ELSE /\ hnd' = [hnd EXCEPT ![pHandle[i]].backing_store_id =
                              IF shared THEN backing_store_id ELSE uid.id]
                /\ counter' = IF shared THEN counter ELSE uid.counter
                /\ ion' = [ion EXCEPT !.i = IF i = N THEN 1 ELSE i + 1]
                /\ pc' = IF i = N THEN "done" ELSE "attr_loop"
                /\ result' = IF i < N THEN result
                             ELSE IF ~shared /\ N # 1 THEN "GRALLOC1_ERROR_NOT_SHARED"
                             ELSE "GRALLOC1_ERROR_NONE"
                /\ UNCHANGED << fds, maps, fail_site >>
    /\ UNCHANGED << modVars, capsVars, descriptors, pHandle, ion_log, shared, table_reads,
                    backing_store_id >>
    /\ UNCHANGED << lockVars, idVars, callVars >>

Next ==
    \/ \E batch \in Batches, env \in ProbeEnvs, oob \in OobEntries : Allocate(batch, env, oob)
    \/ \E opened \in BOOLEAN, cfg \in ModuleConfigs : OpenIon(opened, cfg)
    \/ \E stack_flags \in [1..Len(descriptors) -> StackGarbage], ok \in SUBSET HeapKeys(m) :
           IonBegin(stack_flags, ok)
    \/ \E dup_ok \in BOOLEAN, new_ok \in BOOLEAN : SharedStep(dup_ok, new_ok)
    \/ \E ok \in SUBSET HeapKeys(m), new_ok \in BOOLEAN : NonSharedStep(ok, new_ok)
    \/ \E map_ok \in BOOLEAN : MapStep(map_ok)
    \/ \E attr_ok \in BOOLEAN : AttrStep(attr_ok)

Spec == Init /\ [][Next]_vars

(***************************************************************************)
(* Properties of the allocate call.                                        *)
(***************************************************************************)
\* The steps of mali_gralloc_ion_allocate an error return can come from
\* once backing memory is being obtained.
IonFailSites ==
    {"pick_ion_heap", "alloc_from_ion_heap", "dup", "new private_handle_t", "mmap"}

returned_failure == pc = "done" /\ result = "GRALLOC1_ERROR_NO_RESOURCES"

\* C1: when mali_gralloc_ion_allocate returns because a step failed for some
\* descriptor (heap selection, backing allocation, fd duplication, handle
\* creation or mmap), on the shared and on the non-shared path, every fd and
\* every CPU mapping the call obtained has been released exactly once; and at
\* no point of the call is an fd closed twice or a mapping unmapped twice.
C1_FailureReleasesExactlyOnce ==
    /\ \A f \in 1..Len(fds) : fds[f].closes <= 1
    /\ \A a \in 1..Len(maps) : maps[a].unmaps <= 1
    /\ (returned_failure /\ fail_site \in IonFailSites) =>
          /\ \A f \in 1..Len(fds) : fds[f].closes = 1
          /\ \A a \in 1..Len(maps) : maps[a].unmaps = 1

\* A shared batch whose second mmap failed: two fds (the allocation's and a
\* duplicate) and one mapping had been obtained.
C1_Witness ==
    /\ returned_failure /\ fail_site = "mmap" /\ shared
    /\ Len(fds) >= 2 /\ Len(maps) >= 1

\* C2: whenever the allocate entry point returns a failure, every output
\* handle slot is NULL.
C2_FailureLeavesSlotsNull ==
    returned_failure => \A i \in 1..Len(pHandle) : pHandle[i] = NULL

successful == pc = "done" /\ result \in {"GRALLOC1_ERROR_NONE", "GRALLOC1_ERROR_NOT_SHARED"}

is_protected(i) == AnyBit(descriptors[i].usage, GRALLOC_USAGE_PROTECTED)

\* C3: backing memory for a descriptor whose usage has PROTECTED is only
\* ever requested from the secure heap: every request made for it names the
\* secure heap, every handle it gets is backed by a successful secure-heap
\* request, and without a secure heap, or when the secure-heap request
\* failed, the call has made no other request for it and does not succeed.
C3_ProtectedOnlyFromSecureHeap ==
    /\ \A k \in 1..Len(ion_log) :
          is_protected(ion_log[k].desc) => ion_log[k].heap_type = "SECURE"
    /\ \A i \in 1..Len(pHandle) :
          (pHandle[i] # NULL /\ "USES_ION" \in hnd[pHandle[i]].flags /\ is_protected(i)) =>
              /\ ion_log[fds[hnd[pHandle[i]].share_fd].alloc].heap_type = "SECURE"
              /\ ion_log[fds[hnd[pHandle[i]].share_fd].alloc].ok
    /\ successful =>
          \A i \in 1..Len(descriptors) :
              is_protected(i) => (m.secure_heap_exists /\ pHandle[i] # NULL)
    /\ \A k \in 1..Len(ion_log) :
          (/\ is_protected(ion_log[k].desc)
           /\ ~ion_log[k].ok
           /\ (k = Len(ion_log) \/ ion_log[k + 1].desc # ion_log[k].desc)) =>
              (returned_failure /\ k = Len(ion_log))

\* The secure-heap request for a PROTECTED descriptor failed and the call
\* returned an error, that request being the last one made.
C3_Witness ==
    /\ returned_failure /\ fail_site = "alloc_from_ion_heap"
    /\ ion_log # << >>
    /\ is_protected(ion_log[Len(ion_log)].desc)
    /\ ion_log[Len(ion_log)].heap_type = "SECURE"
    /\ ~ion_log[Len(ion_log)].ok

\* Every slot holds its handle: the loops that create the handles are done
\* and no error has been returned.
handles_returned == pc \in {"map_loop", "attr_loop"} \/ successful

RECURSIVE max_size_from(_, _)
max_size_from(ds, i) ==
    IF i > Len(ds) THEN 0 ELSE max(ds[i].size, max_size_from(ds, i + 1))

\* C4: for a batch of N > 1 descriptors found shareable, once the handles
\* exist: one alloc_from_ion_heap call was made (every ion request in the
\* log belongs to it), it asked for the maximum of the N descriptor sizes and
\* exactly one request succeeded; each of the N handles has an fd of its own
\* that refers to that allocation, and backing_store_size is that maximum.
C4_SharedBatchOneAllocation ==
    (shared /\ Len(descriptors) > 1 /\ handles_returned) =>
        /\ Cardinality({ion_log[k].desc : k \in 1..Len(ion_log)}) = 1
        /\ \A k \in 1..Len(ion_log) : ion_log[k].size = max_size_from(descriptors, 1)
        /\ Cardinality({k \in 1..Len(ion_log) : ion_log[k].ok}) = 1
        /\ \A i \in 1..Len(pHandle) :
              /\ pHandle[i] # NULL
              /\ ion_log[fds[hnd[pHandle[i]].share_fd].alloc].ok
              /\ hnd[pHandle[i]].backing_store_size = max_size_from(descriptors, 1)
        /\ \A i, j \in 1..Len(pHandle) :
              i # j => hnd[pHandle[i]].share_fd # hnd[pHandle[j]].share_fd

\* A shared batch of two descriptors of different sizes, the larger second,
\* allocated successfully.
C4_Witness ==
    /\ shared /\ successful /\ Len(descriptors) = 2
    /\ descriptors[1].size < descriptors[2].size
    /\ ion.max_buffer_index = 2

\* C5: a batch of N > 1 descriptors that all carry the same usage, for which
\* a heap can be picked, is found shareable on every call.
C5_SameUsageIsSharable ==
    (/\ pc \in {"shared_loop", "nonshared_loop"}
     /\ Len(descriptors) > 1
     /\ \A i \in 1..Len(descriptors) : descriptors[i].usage = descriptors[1].usage
     /\ pick_ion_heap(m, descriptors[1].usage, build) # "INVALID") => shared

\* The checks of the descriptor loop that return -EINVAL.
RejectionSites ==
    {"select_format", "format_lookup", "get_alloc_type", "afbc_format_fallback",
     "validate_format"}

\* C8: when a descriptor of the batch is rejected by format selection, the
\* catalog lookup, get_alloc_type, afbc_format_fallback or validate_format,
\* the call returns an error and no backing memory was requested, no ION
\* client opened and no handle made; and a backing-memory request is only
\* ever made with the geometry of all N descriptors computed.
C8_RejectionBeforeBackingMemory ==
    /\ fail_site \in RejectionSites =>
           /\ returned_failure
           /\ ion_log = << >> /\ fds = << >> /\ maps = << >>
           /\ m = UnopenedModule
           /\ \A i \in 1..Len(pHandle) : pHandle[i] = NULL
    /\ ion_log # << >> =>
           \A i \in 1..Len(descriptors) :
               descriptors[i].size > 0 /\ descriptors[i].alloc_format # ZeroFormat

\* The second descriptor of a batch is rejected after the geometry of the
\* first was computed.
C8_Witness ==
    /\ fail_site \in RejectionSites
    /\ Len(descriptors) = 2
    /\ descriptors[1].size > 0
    /\ descriptors[2].size = 0

(***************************************************************************)
(* The capability probe under concurrent callers.                          *)
\* The number of planes of a catalog format.
plane_count(id) == formats[format_scan(id, 1)].npln

\* private_handle_t::is_multi_plane.
is_multi_plane(h) == h.plane_info[2].byte_stride # 0

\* Descriptor i asked for a multi-plane format and its handle was allocated
\* with a single-plane AFBC format: the fallback replaced the base format.
fallback_replaced(i) ==
    /\ pHandle[i] # NULL
    /\ "USES_ION" \in hnd[pHandle[i]].flags
    /\ plane_count(map_flex_formats(descriptors[i].hal_format.fmt)) > 1
    /\ plane_count(hnd[pHandle[i]].alloc_format.fmt) = 1

NumThreads == 2

Threads == 1..NumThreads

\* The functions that consult the capability masks.
CapsCallers ==
    {"mali_gralloc_select_format", "mali_gralloc_adjust_dimensions",
     "afbc_format_fallback", "mali_gralloc_get_caps"}

masks == << dpu_runtime_caps, gpu_runtime_caps, vpu_runtime_caps, cam_runtime_caps >>

probing(t) == tpc[t] \in {"probe", "probe_read", "probe_done"}

\* What the callers' read of runtime_caps_read, made without the mutex, can
\* yield: it is not ordered with the probe's writes, so it may still see
\* false after the flag was set and may see true while the probe is writing.
unlocked_flag_reads ==
    {FALSE} \cup (IF runtime_caps_read \/ \E u \in Threads : probing(u)
                  THEN {TRUE} ELSE {})

already_init_unchecked == FALSE

\* The test made with the mutex held.
already_init == runtime_caps_read

InitCaps ==
    /\ build = "SYSTEM"
    /\ m = UnopenedModule
    /\ counter = 0
    /\ CapsUnread /\ NoAllocation /\ NoSelection
    /\ caps_init_mutex = 0
    /\ tpc = [t \in Threads |-> "idle"]
    /\ tcall = [t \in Threads |-> ""]
    /\ ipc = << >> /\ ibatch = << >>
    /\ handles = {}
    /\ drawn = 0
    /\ backings = 0

otherThanCaps == << modVars, counter, allocVars, idVars, callVars >>

\* A thread enters one of the functions.
Call(t, f) ==
    /\ tpc[t] = "idle"
    /\ tpc' = [tpc EXCEPT ![t] = "check"]
    /\ tcall' = [tcall EXCEPT ![t] = f]
    /\ UNCHANGED << capsVars, caps_init_mutex, otherThanCaps >>

\* if (!runtime_caps_read) determine_format_capabilities();
CheckFlag(t, seen) ==
    /\ tpc[t] = "check"
    /\ seen \in unlocked_flag_reads
    /\ tpc' = [tpc EXCEPT ![t] = IF seen THEN "use" ELSE "lock"]
    /\ UNCHANGED << capsVars, caps_init_mutex, tcall, otherThanCaps >>

Lock(t) ==
    /\ tpc[t] = "lock"
    /\ caps_init_mutex = 0
    /\ caps_init_mutex' = t
    /\ tpc' = [tpc EXCEPT ![t] = "locked"]
    /\ UNCHANGED << capsVars, tcall, otherThanCaps >>

ReCheck(t) ==
    /\ tpc[t] = "locked"
    /\ tpc' = [tpc EXCEPT ![t] = IF already_init THEN "already_init" ELSE "probe"]
    /\ UNCHANGED << capsVars, caps_init_mutex, tcall, otherThanCaps >>

\* The probe body begins: the four masks are cleared.
ProbeClear(t) ==
    /\ tpc[t] = "probe"
    /\ dpu_runtime_caps' = {}
    /\ vpu_runtime_caps' = {}
    /\ gpu_runtime_caps' = {}
    /\ cam_runtime_caps' = {}
    /\ probe_runs' = probe_runs + 1
    /\ tpc' = [tpc EXCEPT ![t] = "probe_read"]
    /\ UNCHANGED << runtime_caps_read, caps_init_mutex, tcall, otherThanCaps >>

\* The masks are read from the driver libraries or the build configuration.
ProbeRead(t, env) ==
    /\ tpc[t] = "probe_read"
    /\ \E caps \in {determine_format_capabilities(env)} :
           /\ dpu_runtime_caps' = caps.dpu
           /\ gpu_runtime_caps' = caps.gpu
           /\ vpu_runtime_caps' = caps.vpu
           /\ cam_runtime_caps' = caps.cam
    /\ tpc' = [tpc EXCEPT ![t] = "probe_done"]
    /\ UNCHANGED << runtime_caps_read, probe_runs, caps_init_mutex, tcall, otherThanCaps >>

ProbeDone(t) ==
    /\ tpc[t] = "probe_done"
    /\ runtime_caps_read' = TRUE
    /\ tpc' = [tpc EXCEPT ![t] = "unlock"]
    /\ UNCHANGED << dpu_runtime_caps, gpu_runtime_caps, vpu_runtime_caps, cam_runtime_caps,
                    probe_runs, caps_init_mutex, tcall, otherThanCaps >>

Unlock(t) ==
    /\ tpc[t] \in {"unlock", "already_init"}
    /\ caps_init_mutex' = 0
    /\ tpc' = [tpc EXCEPT ![t] = "use"]
    /\ UNCHANGED << capsVars, tcall, otherThanCaps >>

\* The function goes on with the masks and returns.
Return(t) ==
    /\ tpc[t] = "use"
    /\ tpc' = [tpc EXCEPT ![t] = "idle"]
    /\ tcall' = [tcall EXCEPT ![t] = ""]
    /\ UNCHANGED << capsVars, caps_init_mutex, otherThanCaps >>

NextCaps ==
    \/ \E t \in Threads, f \in CapsCallers : Call(t, f)
    \/ \E t \in Threads, seen \in BOOLEAN : CheckFlag(t, seen)
    \/ \E t \in Threads : Lock(t)
    \/ \E t \in Threads : ReCheck(t)
    \/ \E t \in Threads : ProbeClear(t)
    \/ \E t \in Threads, env \in ProbeEnvs : ProbeRead(t, env)
    \/ \E t \in Threads : ProbeDone(t)
    \/ \E t \in Threads : Unlock(t)
    \/ \E t \in Threads : Return(t)

SpecCaps == InitCaps /\ [][NextCaps]_vars

\* C6: whatever the interleaving of threads calling
\* mali_gralloc_select_format, mali_gralloc_adjust_dimensions,
\* afbc_format_fallback or mali_gralloc_get_caps, the probe body runs at most
\* once, and from the moment runtime_caps_read is true no step changes any of
\* the four capability masks.
C6_ProbeRunsOnce ==
    /\ [](probe_runs <= 1)
    /\ [][runtime_caps_read => masks' = masks]_vars

\* A second thread passed the unlocked test before the flag was visible and
\* finds, with the mutex held, that the probe has been run.
C6_Witness ==
    /\ runtime_caps_read
    /\ probe_runs = 1
    /\ \E t \in Threads : tpc[t] = "already_init" /\ caps_init_mutex = t

(***************************************************************************)
(* Backing store ids under concurrent allocations.                         *)
(***************************************************************************)
IdThreads == {1, 2}

\* The numbers of descriptors of the concurrent calls.
IdBatchSizes == {1, 2}

\* Allocations, each of which draws at most one id, are followed one past
\* the wrap of the counter.
MaxBackings == CounterWrap + 1

IdleBatch == [shared |-> FALSE, n |-> 0, i |-> 0, backing_store_id |-> 0, base |-> 0]

InitIds ==
    /\ build = "SYSTEM"
    /\ m = UnopenedModule
    /\ counter = 0
    /\ CapsUnread /\ NoAllocation /\ NoSelection
    /\ caps_init_mutex = 0
    /\ tpc = << >> /\ tcall = << >>
    /\ ipc = [t \in IdThreads |-> "idle"]
    /\ ibatch = [t \in IdThreads |-> IdleBatch]
    /\ handles = {}
    /\ drawn = 0
    /\ backings = 0

otherThanIds == << modVars, capsVars, allocVars, lockVars, callVars >>

\* The backing allocation the handle in slot i of the batch b refers to.
backing_of(b, i) == IF b.shared THEN b.base + 1 ELSE b.base + i

\* mali_gralloc_ion_allocate has returned to the thread t the handles of n
\* descriptors: over one allocation when shared is set, over one each
\* otherwise.
IonAllocated(t, sh, n) ==
    /\ ipc[t] = "idle"
    /\ sh => n > 1
    /\ backings + (IF sh THEN 1 ELSE n) <= MaxBackings
    /\ ibatch' = [ibatch EXCEPT ![t] = [shared |-> sh, n |-> n, i |-> 1,
                                        backing_store_id |-> 0, base |-> backings]]
    /\ backings' = backings + (IF sh THEN 1 ELSE n)
    /\ ipc' = [ipc EXCEPT ![t] = IF sh THEN "batch_id" ELSE "handle_loop"]
    /\ UNCHANGED << counter, handles, drawn, otherThanIds >>

\* if (shared) backing_store_id = getUniqueId();
BatchId(t) ==
    /\ ipc[t] = "batch_id"
    /\ \E uid \in {getUniqueId(counter)} :
           /\ ibatch' = [ibatch EXCEPT ![t].backing_store_id = uid.id]
           /\ counter' = uid.counter
    /\ drawn' = drawn + 1
    /\ ipc' = [ipc EXCEPT ![t] = "handle_loop"]
    /\ UNCHANGED << handles, backings, otherThanIds >>

\* One round of the loop over the handles.
HandleId(t, attr_ok) ==
    /\ ipc[t] = "handle_loop"
    /\ \E b \in {ibatch[t]}, uid \in {getUniqueId(counter)} :
       IF ~attr_ok
       THEN \* the handles of the call are freed
            /\ handles' = {h \in handles : h.call # b.base}
            /\ ibatch' = [ibatch EXCEPT ![t] = IdleBatch]
            /\ ipc' = [ipc EXCEPT ![t] = "idle"]
            /\ UNCHANGED << counter, drawn >>
       ELSE /\ handles' = handles \cup
                  {[call |-> b.base, slot |-> b.i, backing |-> backing_of(b, b.i),
                    backing_store_id |-> IF b.shared THEN b.backing_store_id ELSE uid.id]}
            /\ counter' = IF b.shared THEN counter ELSE uid.counter
            /\ drawn' = IF b.shared THEN drawn ELSE drawn + 1
            /\ ibatch' = [ibatch EXCEPT ![t] = IF b.i = b.n THEN IdleBatch
                                               ELSE [b EXCEPT !.i = b.i + 1]]
            /\ ipc' = [ipc EXCEPT ![t] = IF b.i = b.n THEN "idle" ELSE "handle_loop"]
    /\ UNCHANGED << backings, otherThanIds >>

NextIds ==
    \/ \E t \in IdThreads, sh \in BOOLEAN, n \in IdBatchSizes : IonAllocated(t, sh, n)
    \/ \E t \in IdThreads : BatchId(t)
    \/ \E t \in IdThreads, attr_ok \in BOOLEAN : HandleId(t, attr_ok)

SpecIds == InitIds /\ [][NextIds]_vars

\* C7: whatever the interleaving of the allocations of one process, as long
\* as no more ids were drawn than the counter has values, two handles carry
\* the same backing_store_id exactly when they refer to the same backing
\* allocation: the handles of a shared batch have one id in common and any
\* other two handles have different ids.
C7_BackingStoreIdsUnique ==
    drawn <= CounterWrap =>
        \A h1 \in handles, h2 \in handles :
            (h1.backing_store_id = h2.backing_store_id) <=> (h1.backing = h2.backing)

\* Two threads are in their handle loops, one over a shared batch, and
\* handles of a shared and of another allocation are finished.
C7_Witness ==
    /\ drawn <= CounterWrap
    /\ ipc[1] = "handle_loop" /\ ipc[2] = "handle_loop"
    /\ \E h1 \in handles, h2 \in handles, h3 \in handles :
           /\ h1 # h2 /\ h1.backing = h2.backing
           /\ h3.backing # h1.backing

(***************************************************************************)
(* Format selection and catalog lookup over the formats and usages.        *)
(***************************************************************************)
CatalogIds == {formats[i].id : i \in 1..num_formats}

YuvCatalogIds == {formats[i].id : i \in {j \in 1..num_formats : formats[j].is_yuv}}

\* Formats a client can name that map_flex_formats leaves as they are and
\* the catalog does not have.
UncataloguedIds == {"YCbCr_422_888", "YCbCr_444_888"}

SelFormats == CatalogIds \cup UncataloguedIds \cup {"IMPLEMENTATION_DEFINED", "YCbCr_420_888"}

SelHwUsages ==
    {{}, GRALLOC_USAGE_HW_TEXTURE, GRALLOC_USAGE_HW_TEXTURE \cup GRALLOC_USAGE_HW_COMPOSER,
     GRALLOC_USAGE_HW_VIDEO_ENCODER}

\* Neither, one or both of the NO_AFBC bits.
SelNoAfbcBits == {{}, MALI_GRALLOC_USAGE_NO_AFBC} \cup {{b} : b \in MALI_GRALLOC_USAGE_NO_AFBC}

SelUsages ==
    {hw \cup na \cup cpu \cup pf :
        hw \in SelHwUsages, na \in SelNoAfbcBits,
        cpu \in {{}, GRALLOC_USAGE_SW_READ_OFTEN},
        pf \in {{}, MALI_GRALLOC_USAGE_PRIVATE_FORMAT}}

InitSelect ==
    /\ build = "SYSTEM"
    /\ m = UnopenedModule
    /\ counter = 0
    /\ CapsUnread /\ NoAllocation /\ NoThreads /\ NoSelection

\* mali_gralloc_buffer_allocate for one descriptor of 32x32 pixels, up to
\* the point where backing memory would be requested.
PrepareRequest(fmt, type, usage, env, oob) ==
    /\ sel.pc = "idle"
    /\ \E caps \in {determine_format_capabilities(env)} :
       \E prep \in {prepare_descriptor(Descriptor(BaseFormat(fmt), type, usage, 32, 32, 1),
                                       caps, oob)} :
           /\ runtime_caps_read' = TRUE
           /\ dpu_runtime_caps' = caps.dpu
           /\ gpu_runtime_caps' = caps.gpu
           /\ vpu_runtime_caps' = caps.vpu
           /\ cam_runtime_caps' = caps.cam
           /\ probe_runs' = probe_runs + 1
           /\ sel' = [pc |-> "done", hal_format |-> fmt, format_type |-> type,
                      usage |-> usage,
                      internal_format |-> prep.d.internal_format,
                      table_reads |-> select_format_table_reads(BaseFormat(fmt), type, usage),
                      rejected |-> prep.rejected]
    /\ UNCHANGED << modVars, counter, allocVars, lockVars, idVars, geo, lk >>

NextSelect ==
    /\ sel.pc = "idle"
    /\ \E fmt \in SelFormats, type \in {"USAGE", "INTERNAL"}, usage \in SelUsages,
          env \in ProbeEnvs, oob \in OobEntries : PrepareRequest(fmt, type, usage, env, oob)

SpecSelect == InitSelect /\ [][NextSelect]_vars

\* C9: for every YUV format of the catalog and every usage that has both
\* NO_AFBC bits, whatever else the usage has, mali_gralloc_select_format
\* returns 0 and the allocation fails.
C9_NoAfbcYuvRejected ==
    (/\ sel.pc = "done"
     /\ sel.hal_format \in YuvCatalogIds
     /\ AllBits(sel.usage, MALI_GRALLOC_USAGE_NO_AFBC))
    => (sel.internal_format = ZeroFormat /\ sel.rejected = "select_format")

\* C10: for a requested base format the catalog has no entry for, the
\* allocation fails before backing memory is requested, whatever the usage,
\* and no scan of the selection reads formats[] at num_formats or beyond.
C10_UncataloguedFailsWithoutOverread ==
    (/\ sel.pc = "done"
     /\ map_flex_formats(sel.hal_format) \notin CatalogIds)
    => (/\ sel.rejected # ""
        /\ \A idx \in sel.table_reads : idx <= num_formats)

(***************************************************************************)
(* Automatic format selection over formats, usages and capabilities.       *)
(***************************************************************************)
\* A device whose three driver libraries export the given masks.
LibEnv(dpu, gpu, vpu) ==
    [dpu_lib |-> [found |-> TRUE, caps |-> dpu], gpu_lib |-> [found |-> TRUE, caps |-> gpu],
     vpu_lib |-> [found |-> TRUE, caps |-> vpu], display_version |-> 0,
     gpu_afbc_basic |-> FALSE, gpu_splitblk |-> FALSE, gpu_wideblk |-> FALSE,
     gpu_yuv_wideblk |-> FALSE, gpu_tiled |-> FALSE, video_version |-> 0,
     no_external_afbc |-> FALSE]

FormatEnvs ==
    ProbeEnvs \cup
    { \* a GPU with double body but without tiled headers
      LibEnv({"OPTIONS_PRESENT", "AFBC_BASIC"},
             {"OPTIONS_PRESENT", "AFBC_BASIC", "AFBC_SPLITBLK", "AFBC_WIDEBLK", "AFBC_DOUBLE_BODY"},
             {"OPTIONS_PRESENT", "AFBC_BASIC"}),
      \* every capability everywhere
      LibEnv(AllCapBits, AllCapBits, AllCapBits) }

FormatHwBits ==
    GRALLOC_USAGE_HW_TEXTURE \cup GRALLOC_USAGE_HW_RENDER \cup GRALLOC_USAGE_HW_COMPOSER
    \cup GRALLOC_USAGE_HW_VIDEO_ENCODER \cup GRALLOC_USAGE_EXTERNAL_DISP \cup GRALLOC_USAGE_HW_FB

\* Usages with a CPU bit, over a few sets of other bits.
FormatCpuUsages ==
    {cpu \cup hw \cup fb :
        cpu \in {GRALLOC_USAGE_SW_READ_RARELY, GRALLOC_USAGE_SW_WRITE_OFTEN},
        hw \in {{}, GRALLOC_USAGE_HW_TEXTURE, GRALLOC_USAGE_HW_RENDER \cup GRALLOC_USAGE_HW_TEXTURE,
                GRALLOC_USAGE_HW_COMPOSER \cup GRALLOC_USAGE_HW_VIDEO_ENCODER,
                MALI_GRALLOC_USAGE_NO_AFBC \cup GRALLOC_USAGE_HW_TEXTURE},
        fb \in {{}, MALI_GRALLOC_USAGE_FRONTBUFFER}}

FormatUsages ==
    {hw \cup fb : hw \in SUBSET FormatHwBits, fb \in {{}, MALI_GRALLOC_USAGE_FRONTBUFFER}}
    \cup {{"PRODUCER_CAMERA"} \cup hw :
             hw \in {{}, GRALLOC_USAGE_HW_TEXTURE,
                     GRALLOC_USAGE_HW_COMPOSER \cup GRALLOC_USAGE_HW_VIDEO_ENCODER,
                     GRALLOC_USAGE_HW_TEXTURE \cup GRALLOC_USAGE_HW_COMPOSER
                         \cup GRALLOC_USAGE_EXTERNAL_DISP}}
    \cup FormatCpuUsages

\* mali_gralloc_select_format for a request of 64x64 pixels that names a
\* format by usage.
SelectFormat(fmt, usage, env, oob) ==
    /\ sel.pc = "idle"
    /\ \E caps \in {determine_format_capabilities(env)} :
           /\ runtime_caps_read' = TRUE
           /\ dpu_runtime_caps' = caps.dpu
           /\ gpu_runtime_caps' = caps.gpu
           /\ vpu_runtime_caps' = caps.vpu
           /\ cam_runtime_caps' = caps.cam
           /\ probe_runs' = probe_runs + 1
           /\ sel' = [pc |-> "selected", hal_format |-> fmt, usage |-> usage,
                      producer |-> determine_producer(usage).producer,
                      consumer |-> determine_consumer(usage, caps.dpu).consumer,
                      internal_format |->
                          mali_gralloc_select_format(BaseFormat(fmt), "USAGE", usage,
                                                     64 * 64, caps, oob)]
    /\ UNCHANGED << modVars, counter, allocVars, lockVars, idVars, geo, lk >>

NextFormat ==
    /\ sel.pc = "idle"
    /\ \E fmt \in SelFormats, usage \in FormatUsages, env \in FormatEnvs, oob \in OobEntries :
           SelectFormat(fmt, usage, env, oob)

SpecFormat == InitSelect /\ [][NextFormat]_vars

has_cpu_bits(usage) == AnyBit(usage, GRALLOC_USAGE_SW_READ_MASK \cup GRALLOC_USAGE_SW_WRITE_MASK)

\* C11: for a usage with the FRONTBUFFER bit, automatic selection returns 0,
\* or a format with DOUBLE_BODY, AFBC_BASIC and TILED_HEADERS and neither
\* WIDEBLK nor EXTRAWIDEBLK, or a format without any modifier bit.
C11_FrontbufferAllOrNothing ==
    (sel.pc = "selected" /\ AnyBit(sel.usage, MALI_GRALLOC_USAGE_FRONTBUFFER)) =>
        \/ sel.internal_format = ZeroFormat
        \/ sel.internal_format.ext = {}
        \/ /\ {"AFBC_DOUBLE_BODY", "AFBC_BASIC", "AFBC_TILED_HEADERS"}
                  \subseteq sel.internal_format.ext
           /\ sel.internal_format.ext \cap {"AFBC_WIDEBLK", "AFBC_EXTRAWIDEBLK"} = {}

\* A front-buffer request came out with a double body.
C11_Witness ==
    /\ sel.pc = "selected"
    /\ AnyBit(sel.usage, MALI_GRALLOC_USAGE_FRONTBUFFER)
    /\ "AFBC_DOUBLE_BODY" \in sel.internal_format.ext

RenderComposerEncoder ==
    GRALLOC_USAGE_HW_RENDER \cup GRALLOC_USAGE_HW_COMPOSER \cup GRALLOC_USAGE_HW_VIDEO_ENCODER

TextureComposerExternal ==
    GRALLOC_USAGE_HW_TEXTURE \cup GRALLOC_USAGE_HW_COMPOSER \cup GRALLOC_USAGE_EXTERNAL_DISP

ComposerEncoder == GRALLOC_USAGE_HW_COMPOSER \cup GRALLOC_USAGE_HW_VIDEO_ENCODER

TextureComposer == GRALLOC_USAGE_HW_TEXTURE \cup GRALLOC_USAGE_HW_COMPOSER

\* The producer roles of the multi-bit patterns the usage contains.
pattern_producers(usage) ==
    (IF AllBits(usage, RenderComposerEncoder) THEN {"GPU_OR_DISPLAY"} ELSE {})
    \cup (IF AllBits(usage, TextureComposerExternal) THEN {"VIDEO_DECODER"} ELSE {})
    \cup (IF AllBits(usage, ComposerEncoder) THEN {"DISPLAY"} ELSE {})

\* C20 as stated: for a usage without CPU bits that contains a multi-bit
\* pattern, the role returned is that of a pattern it contains (producer:
\* render+composer+encoder, texture+composer+external display,
\* composer+encoder; consumer: texture+composer), no single-bit rule coming
\* first.
C20_PatternBeforeSingleBit ==
    (sel.pc = "selected" /\ ~has_cpu_bits(sel.usage)) =>
        /\ pattern_producers(sel.usage) # {} => sel.producer \in pattern_producers(sel.usage)
        /\ AllBits(sel.usage, TextureComposer) => sel.consumer = "GPU_OR_DISPLAY"

\* C20 amended: for a usage without CPU bits, render+composer+encoder gives
\* the producer GPU_OR_DISPLAY whatever else is set; HW_RENDER and then a
\* camera bit are tested next and give GPU resp. CAMERA even when a later
\* pattern is contained; only then texture+composer+external display gives
\* VIDEO_DECODER and, after it, composer+encoder gives DISPLAY.  For the
\* consumer HW_FB (GPU_OR_DISPLAY) and then the encoder bit (VIDEO_ENCODER)
\* are tested before texture+composer, which gives GPU_OR_DISPLAY only when
\* the DPU mask has OPTIONS_PRESENT and GPU_EXCL otherwise.
C20_DecisionOrder ==
    (sel.pc = "selected" /\ ~has_cpu_bits(sel.usage)) =>
        /\ AllBits(sel.usage, RenderComposerEncoder) => sel.producer = "GPU_OR_DISPLAY"
        /\ (AnyBit(sel.usage, GRALLOC_USAGE_HW_RENDER)
            /\ ~AllBits(sel.usage, RenderComposerEncoder)) => sel.producer = "GPU"
        /\ (AnyBit(sel.usage, GRALLOC_USAGE_HW_CAMERA_MASK)
            /\ ~AnyBit(sel.usage, GRALLOC_USAGE_HW_RENDER)) => sel.producer = "CAMERA"
        /\ (AllBits(sel.usage, TextureComposerExternal)
            /\ ~AnyBit(sel.usage, GRALLOC_USAGE_HW_RENDER \cup GRALLOC_USAGE_HW_CAMERA_MASK))
               => sel.producer = "VIDEO_DECODER"
        /\ (AllBits(sel.usage, ComposerEncoder)
            /\ ~AllBits(sel.usage, TextureComposerExternal)
            /\ ~AnyBit(sel.usage, GRALLOC_USAGE_HW_RENDER \cup GRALLOC_USAGE_HW_CAMERA_MASK))
               => sel.producer = "DISPLAY"
        /\ AnyBit(sel.usage, GRALLOC_USAGE_HW_FB) => sel.consumer = "GPU_OR_DISPLAY"
        /\ (AnyBit(sel.usage, GRALLOC_USAGE_HW_VIDEO_ENCODER)
            /\ ~AnyBit(sel.usage, GRALLOC_USAGE_HW_FB)) => sel.consumer = "VIDEO_ENCODER"
        /\ (AllBits(sel.usage, TextureComposer)
            /\ ~AnyBit(sel.usage, GRALLOC_USAGE_HW_FB \cup GRALLOC_USAGE_HW_VIDEO_ENCODER))
               => sel.consumer = IF "OPTIONS_PRESENT" \in dpu_runtime_caps
                                 THEN "GPU_OR_DISPLAY" ELSE "GPU_EXCL"

\* A usage with HW_RENDER that contains the video-decoder pattern.
C20_Witness ==
    /\ sel.pc = "selected"
    /\ AllBits(sel.usage, TextureComposerExternal \cup GRALLOC_USAGE_HW_RENDER)
    /\ ~AnyBit(sel.usage, GRALLOC_USAGE_HW_VIDEO_ENCODER)
    /\ sel.producer = "GPU"

(***************************************************************************)
(* One call of calc_allocation_size: every catalog format, every           *)
(* allocation type get_alloc_type can produce for it and validate_format   *)
(* accepts, the four combinations of CPU and hardware usage, and small     *)
(* dimensions.  The total size at width + 1 and at height + 1 is recorded  *)
(* next to the layout.                                                     *)
(***************************************************************************)
MaxDim == 16

GeoDims == 1 .. MaxDim

AfbcModifierBits ==
    {"AFBC_BASIC", "AFBC_WIDEBLK", "AFBC_EXTRAWIDEBLK", "AFBC_TILED_HEADERS", "AFBC_DOUBLE_BODY"}

\* The allocation types of a format with npln planes.
alloc_types_of(npln) ==
    { r.type : r \in { t \in { alloc_type_for(ext, npln, padding) :
                                 ext \in SUBSET AfbcModifierBits,
                                 padding \in {{}, MALI_GRALLOC_USAGE_AFBC_PADDING} } : t.rval } }

\* The geometry does not depend on the build's heap.
InitGeometry == InitSelect

total_size(width, height, alloc_type, format, has_cpu_usage, has_hw_usage) ==
    calc_allocation_size(width, height, alloc_type, format, has_cpu_usage, has_hw_usage,
                         0, << ZeroPlane, ZeroPlane, ZeroPlane >>).size

CalcAllocationSize(format, alloc_type, has_cpu_usage, has_hw_usage, width, height) ==
    /\ validate_format(format, alloc_type, height)
    /\ \E calc \in { calc_allocation_size(width, height, alloc_type, format, has_cpu_usage,
                                          has_hw_usage, 0, << ZeroPlane, ZeroPlane, ZeroPlane >>) } :
          geo' = [pc |-> "computed", format |-> format, alloc_type |-> alloc_type,
                  has_cpu_usage |-> has_cpu_usage, has_hw_usage |-> has_hw_usage,
                  width |-> width, height |-> height,
                  size |-> calc.size, pixel_stride |-> calc.pixel_stride,
                  plane_info |-> calc.plane_info,
                  size_wider |-> total_size(width + 1, height, alloc_type, format,
                                            has_cpu_usage, has_hw_usage),
                  size_taller |-> total_size(width, height + 1, alloc_type, format,
                                             has_cpu_usage, has_hw_usage)]
    /\ UNCHANGED << modVars, capsVars, counter, allocVars, lockVars, idVars, sel, lk >>

NextGeometry ==
    /\ geo.pc = "idle"
    /\ \E format_idx \in 1 .. num_formats :
          \E alloc_type \in alloc_types_of(formats[format_idx].npln),
             has_cpu_usage \in BOOLEAN, has_hw_usage \in BOOLEAN,
             width \in GeoDims, height \in GeoDims :
             CalcAllocationSize(formats[format_idx], alloc_type, has_cpu_usage, has_hw_usage,
                                width, height)

SpecGeometry == InitGeometry /\ [][NextGeometry]_vars

\* The planes of the computed layout, numbered from 1.
geo_planes == 1 .. geo.format.npln

\* The end of plane p's region: the next plane's offset, or the total size.
region_end(p) == IF p < geo.format.npln THEN geo.plane_info[p + 1].offset ELSE geo.size

\* C13: for every catalog format, accepted allocation type and combination
\* of has_cpu_usage and has_hw_usage, plane 0 starts at offset 0, the offsets
\* strictly increase with the plane index, and each plane's
\* byte_stride * alloc_height bytes end at or before the next plane's offset
\* (the total size for the last plane).
C13_PlanesOrderedAndDisjoint ==
    geo.pc = "computed" =>
        /\ geo.plane_info[1].offset = 0
        /\ \A p \in geo_planes :
              /\ p > 1 => geo.plane_info[p - 1].offset < geo.plane_info[p].offset
              /\ geo.plane_info[p].offset
                   + geo.plane_info[p].byte_stride * geo.plane_info[p].alloc_height
                 <= region_end(p)

\* The stride alignment of plane p of the computed layout.
geo_hw_align == IF geo.has_hw_usage THEN (IF geo.format.is_yuv THEN 128 ELSE 64) ELSE 0

geo_cpu_align(p) == IF geo.has_cpu_usage THEN (geo.format.bpp[p] * geo.format.pwa) \div 8 ELSE 0

\* C14 as stated: with CPU usage, hardware usage or both, every plane's byte
\* stride times 8 is a multiple of the plane's bits per pixel, and the byte
\* stride is a multiple of lcm(hw_align, cpu_align).
C14_StrideDivisible ==
    (geo.pc = "computed" /\ ~is_afbc(geo.alloc_type)
     /\ (geo.has_cpu_usage \/ geo.has_hw_usage)) =>
        \A p \in geo_planes :
           /\ (geo.plane_info[p].byte_stride * 8) % geo.format.bpp[p] = 0
           /\ geo.plane_info[p].byte_stride % lcm(geo_hw_align, geo_cpu_align(p)) = 0

\* C14 amended: for an uncompressed allocation with CPU usage, hardware
\* usage or both, every plane's byte stride is a multiple of
\* lcm(hw_align, cpu_align); its eightfold is a multiple of the plane's bits
\* per pixel when the usage has CPU bits (with hardware usage alone the
\* stride is a multiple of 64 resp. 128 bytes only).  For an AFBC allocation
\* the byte stride is alloc_width * bpp_afbc / 8 without remainder.
C14_StrideAligned ==
    (geo.pc = "computed" /\ (geo.has_cpu_usage \/ geo.has_hw_usage)) =>
        \A p \in geo_planes :
           IF is_afbc(geo.alloc_type)
           THEN geo.plane_info[p].byte_stride * 8
                  = geo.plane_info[p].alloc_width * geo.format.bpp_afbc[p]
           ELSE /\ geo.plane_info[p].byte_stride % lcm(geo_hw_align, geo_cpu_align(p)) = 0
                /\ geo.has_cpu_usage
                     => (geo.plane_info[p].byte_stride * 8) % geo.format.bpp[p] = 0

\* A 24-bit format with CPU and hardware usage: the alignment is lcm(64, 3).
C14_Witness ==
    /\ geo.pc = "computed"
    /\ geo.format.id = "RGB_888"
    /\ geo.has_cpu_usage /\ geo.has_hw_usage
    /\ geo.plane_info[1].byte_stride = 192

\* C15: for fixed format, allocation type and usage the total size never
\* decreases when the width or the height grows.  Stated for one step in
\* each dimension at every point of the range, which gives it for every
\* pair w <= w', h <= h' of the range.
C15_SizeMonotone ==
    geo.pc = "computed" =>
        /\ geo.size <= geo.size_wider
        /\ geo.size <= geo.size_taller

\* A step in width that crosses an alignment boundary and grows the size.
C15_Witness ==
    /\ geo.pc = "computed"
    /\ geo.width = 16
    /\ is_afbc(geo.alloc_type)
    /\ geo.size < geo.size_wider
    /\ geo.size < geo.size_taller

(***************************************************************************)
(* One descriptor taken through the loop body of                           *)
(* mali_gralloc_buffer_allocate (selection, allocation type, fallback,     *)
(* validation, geometry) on devices whose GPU library exports any          *)
(* combination of the capability bits that matter for a GPU consumer.      *)
(***************************************************************************)
PrepGpuBits ==
    {"OPTIONS_PRESENT", "AFBC_BASIC", "AFBC_TILED_HEADERS", "AFBC_MULTIPLANE_READ",
     "AFBC_YUV_NOWRITE", "AFBC_DOUBLE_BODY"}

PrepFormats == {"NV12", "RGBA_8888", "YV12", "RGB_565"}

PrepUsages ==
    { GRALLOC_USAGE_HW_TEXTURE,
      GRALLOC_USAGE_HW_RENDER \cup GRALLOC_USAGE_HW_TEXTURE,
      GRALLOC_USAGE_HW_TEXTURE \cup GRALLOC_USAGE_HW_COMPOSER,
      CPU_OFTEN }

PrepDims == {16, 33, 130}

PrepareBuffer(fmt, usage, gpu, width, height, oob) ==
    \E caps \in { determine_format_capabilities(
                      LibEnv({"OPTIONS_PRESENT", "AFBC_BASIC"}, gpu,
                             {"OPTIONS_PRESENT", "AFBC_BASIC"})) } :
       \E prep \in { prepare_descriptor(Descriptor(BaseFormat(fmt), "USAGE", usage,
                                                   width, height, 1), caps, oob) } :
           /\ runtime_caps_read' = TRUE
           /\ dpu_runtime_caps' = caps.dpu
           /\ gpu_runtime_caps' = caps.gpu
           /\ vpu_runtime_caps' = caps.vpu
           /\ cam_runtime_caps' = caps.cam
           /\ probe_runs' = probe_runs + 1
           /\ sel' = [pc |-> "prepared", hal_format |-> fmt, usage |-> usage,
                      rejected |-> prep.rejected, d |-> prep.d]
           /\ UNCHANGED << modVars, counter, allocVars, lockVars, idVars, geo, lk >>

NextPrepare ==
    /\ sel.pc = "idle"
    /\ \E fmt \in PrepFormats, usage \in PrepUsages, gpu \in SUBSET PrepGpuBits,
          width \in PrepDims, height \in PrepDims, oob \in OobEntries :
          PrepareBuffer(fmt, usage, gpu, width, height, oob)

SpecPrepare == InitSelect /\ [][NextPrepare]_vars

\* The descriptor was allocated uncompressed with two planes, the second
\* right behind the first.
two_plane_uncompressed(d) ==
    /\ ~AnyBit(d.alloc_format.ext, MALI_GRALLOC_INTFMT_AFBCENABLE_MASK)
    /\ plane_count(d.alloc_format.fmt) = 2
    /\ d.plane_info[2].byte_stride # 0
    /\ d.plane_info[2].offset = d.plane_info[1].byte_stride * d.plane_info[1].alloc_height

nv12_for_texture ==
    /\ sel.pc = "prepared"
    /\ sel.hal_format = "NV12"
    /\ sel.usage = GRALLOC_USAGE_HW_TEXTURE
    /\ "AFBC_MULTIPLANE_READ" \notin gpu_runtime_caps

rgba_for_gpu ==
    /\ sel.pc = "prepared"
    /\ sel.hal_format = "RGBA_8888"
    /\ sel.usage = GRALLOC_USAGE_HW_RENDER \cup GRALLOC_USAGE_HW_TEXTURE
    /\ {"OPTIONS_PRESENT", "AFBC_BASIC", "AFBC_TILED_HEADERS"} \subseteq gpu_runtime_caps

\* Superblocks and body bytes of the single plane of a 32-bit AFBC buffer
\* with 16x16 superblocks (1024 bytes a superblock).
superblockCount(d) ==
    (d.plane_info[1].alloc_width * d.plane_info[1].alloc_height)
    \div (AFBC_PIXELS_PER_BLOCK * AFBC_PIXELS_PER_BLOCK)

header_size_of(d) == d.size - superblockCount(d) * 1024

single_plane_basic_afbc(d) ==
    /\ "AFBC_BASIC" \in d.alloc_format.ext
    /\ d.alloc_format.ext \cap {"AFBC_WIDEBLK", "AFBC_EXTRAWIDEBLK"} = {}
    /\ d.alloc_format.fmt = "RGBA_8888"
    /\ d.plane_info[2].byte_stride = 0
    /\ d.plane_info[1].alloc_width % 16 = 0
    /\ d.plane_info[1].alloc_height % 16 = 0

\* C17 as stated: RGBA_8888 for GPU render + texture on a GPU mask with AFBC
\* basic and tiled headers is single-plane AFBC with 16x16 superblocks and a
\* header of superblockCount * 16 bytes rounded up to a multiple of 1024.
C17_HeaderRoundedTo1024 ==
    rgba_for_gpu =>
        /\ sel.rejected = ""
        /\ single_plane_basic_afbc(sel.d)
        /\ header_size_of(sel.d) = GRALLOC_ALIGN(superblockCount(sel.d) * 16, 1024)

\* C17 amended: RGBA_8888 for GPU render + texture on a GPU mask with
\* OPTIONS_PRESENT, AFBC basic and tiled headers is single-plane AFBC with
\* 16x16 superblocks and tiled headers, and its header is
\* superblockCount * 16 bytes rounded up to a multiple of 4096, the
\* alignment of tiled headers (1024 is the alignment without them).
C17_HeaderRoundedTo4096 ==
    rgba_for_gpu =>
        /\ sel.rejected = ""
        /\ single_plane_basic_afbc(sel.d)
        /\ "AFBC_TILED_HEADERS" \in sel.d.alloc_format.ext
        /\ header_size_of(sel.d) = GRALLOC_ALIGN(superblockCount(sel.d) * 16, 4096)

\* A buffer of 16x16 pixels: 128x128 are allocated, 64 superblocks, whose
\* 1024 header bytes are rounded up to 4096.
C17_Witness ==
    /\ rgba_for_gpu
    /\ sel.d.width = 16 /\ sel.d.height = 16
    /\ superblockCount(sel.d) = 64
    /\ header_size_of(sel.d) = 4096

(***************************************************************************)
(* Buffer access (mali_gralloc_bufferaccess.cpp), the build with the       *)
(* gralloc 1.0 API and without the legacy lock.  `int' is scaled down to   *)
(* the range -(INT_MAX + 1) .. INT_MAX.  A handle is the record of the     *)
(* private_handle_t fields the lock functions read; the output (vaddr,     *)
(* ycbcr, flex_layout) is either NULL or a valid object.                   *)
(***************************************************************************)
INT_MAX == 7

\* The two's complement value the hardware leaves for a sum.
int_wrap(x) == ((x + INT_MAX + 1) % (2 * (INT_MAX + 1))) - (INT_MAX + 1)

\* The status returned.  l + w and t + h are signed additions of
\* non-negative ints: when a sum exceeds INT_MAX the behaviour is undefined,
\* and overflow_test names what the build made of `(l + w) < 0': "wraps"
\* (the sum is computed in two's complement and the test sees a negative
\* value) or "folded" (the compiler, knowing l, w >= 0, removed the test).
validate_lock_input_parameters(buffer, l, t, w, h, overflow_test) ==
    IF l < 0 \/ t < 0 \/ w < 0 \/ h < 0 THEN "EINVAL"
    ELSE IF overflow_test = "wraps" /\ (int_wrap(l + w) < 0 \/ int_wrap(t + h) < 0)
    THEN "EINVAL"
    ELSE IF int_wrap(t + h) > buffer.height \/ int_wrap(l + w) > buffer.width THEN "EINVAL"
    ELSE IF ~(buffer.allocating_pid = getpid \/ buffer.remote_pid = getpid) \/ buffer.base = NULL
    THEN "EINVAL"
    ELSE IF buffer.alloc_format.ext # {} THEN "UNSUPPORTED"
    ELSE "0"

\* What a lock call leaves: its status, whether it stored a CPU pointer in
\* the output, and the handle's writeOwner.
LockResult(status, written, writeOwner) ==
    [status |-> status, written |-> written, writeOwner |-> writeOwner]

write_owner(buffer, usage) ==
    IF "USES_ION" \in buffer.flags THEN AnyBit(usage, GRALLOC_USAGE_SW_WRITE_MASK)
    ELSE buffer.writeOwner

mali_gralloc_lock(buffer, usage, l, t, w, h, out_null, overflow_test) ==
    LET status == validate_lock_input_parameters(buffer, l, t, w, h, overflow_test)
    IN  IF status # "0" THEN LockResult(status, FALSE, buffer.writeOwner)
        ELSE IF buffer.req_format \in {"YCbCr_420_888", "YCbCr_422_888", "YCbCr_444_888"}
        THEN LockResult("EINVAL", FALSE, buffer.writeOwner)
        ELSE IF get_format_index(buffer.alloc_format.fmt) = -1
        THEN LockResult("EINVAL", FALSE, buffer.writeOwner)
        ELSE IF has_cpu_bits(usage)
        THEN IF out_null THEN LockResult("EINVAL", FALSE, FALSE)
             ELSE LockResult("0", TRUE, write_owner(buffer, usage))
        ELSE LockResult("0", FALSE, write_owner(buffer, usage))

mali_gralloc_lock_ycbcr(buffer, usage, l, t, w, h, out_null, overflow_test) ==
    LET status == validate_lock_input_parameters(buffer, l, t, w, h, overflow_test)
    IN  IF status # "0" THEN LockResult(status, FALSE, buffer.writeOwner)
        ELSE IF get_format_index(buffer.alloc_format.fmt) = -1
        THEN LockResult("EINVAL", FALSE, buffer.writeOwner)
        ELSE IF ~formats[get_format_index(buffer.alloc_format.fmt)].is_yuv
        THEN LockResult("EINVAL", FALSE, buffer.writeOwner)
        ELSE IF has_cpu_bits(usage)
        THEN IF out_null THEN LockResult("EINVAL", FALSE, write_owner(buffer, usage))
             ELSE IF buffer.alloc_format.fmt \in {"Y8", "Y16", "NV12", "YCrCb_420_SP", "NV21", "YV12"}
             THEN LockResult("0", TRUE, write_owner(buffer, usage))
             ELSE LockResult("EINVAL", TRUE, write_owner(buffer, usage))
        ELSE IF out_null THEN LockResult("SIGSEGV", FALSE, write_owner(buffer, usage))
        ELSE LockResult("0", FALSE, write_owner(buffer, usage))

mali_gralloc_lock_flex_async(buffer, usage, l, t, w, h, out_null, overflow_test) ==
    LET status == validate_lock_input_parameters(buffer, l, t, w, h, overflow_test)
    IN  IF status # "0" THEN LockResult(status, FALSE, buffer.writeOwner)
        ELSE IF get_format_index(buffer.alloc_format.fmt) = -1
        THEN LockResult("EINVAL", FALSE, write_owner(buffer, usage))
        ELSE IF ~formats[get_format_index(buffer.alloc_format.fmt)].flex
        THEN LockResult("UNSUPPORTED", FALSE, write_owner(buffer, usage))
        ELSE IF out_null THEN LockResult("SIGSEGV", FALSE, write_owner(buffer, usage))
        ELSE IF buffer.alloc_format.fmt \in
                  {"Y8", "Y16", "NV12", "YCrCb_420_SP", "NV21", "YV12", "P010", "P210",
                   "YCbCr_422_I", "YCbCr_422_SP", "Y210", "RGBA_16161616", "RGBA_8888",
                   "RGBX_8888", "RGB_888", "BGRA_8888"}
        THEN LockResult("0", TRUE, write_owner(buffer, usage))
        ELSE LockResult("UNSUPPORTED", FALSE, write_owner(buffer, usage))

(***************************************************************************)
(* One lock request on one buffer.                                         *)
(***************************************************************************)
LockFunctions == {"lock", "lock_ycbcr", "lock_flex_async"}

\* alloc_format and req_format of the buffers locked.
LockFormats ==
    { [alloc_format |-> BaseFormat("RGBA_8888"), req_format |-> "RGBA_8888"],
      [alloc_format |-> [fmt |-> "RGBA_8888", ext |-> {"AFBC_BASIC"}], req_format |-> "RGBA_8888"],
      [alloc_format |-> BaseFormat("NV12"), req_format |-> "NV12"],
      [alloc_format |-> BaseFormat("NV12"), req_format |-> "YCbCr_420_888"],
      [alloc_format |-> BaseFormat("RGB_565"), req_format |-> "RGB_565"],
      [alloc_format |-> BaseFormat("Y0L2"), req_format |-> "Y0L2"] }

\* The buffers: the caller allocated it, retained it, or neither; mapped or
\* not.
LockHandles ==
    { [width |-> size, height |-> size, allocating_pid |-> pids[1], remote_pid |-> pids[2],
       base |-> base, alloc_format |-> f.alloc_format, req_format |-> f.req_format,
       flags |-> {"USES_ION"}, writeOwner |-> FALSE] :
      size \in {2, INT_MAX},
      pids \in { << getpid, -1 >>, << getpid + 1, getpid >>, << getpid + 1, -1 >> },
      base \in {NULL, 1}, f \in LockFormats }

LockOffsets == {-1, 0, 2, INT_MAX}

LockExtents == {-1, 0, INT_MAX}

LockUsages == {GRALLOC_USAGE_SW_READ_OFTEN \cup GRALLOC_USAGE_SW_WRITE_OFTEN,
               GRALLOC_USAGE_HW_TEXTURE}

InitLock == InitSelect

LockRequest(fn, buffer, usage, l, t, w, h, out_null, overflow_test) ==
    /\ \E r \in { CASE fn = "lock" ->
                         mali_gralloc_lock(buffer, usage, l, t, w, h, out_null, overflow_test)
                    [] fn = "lock_ycbcr" ->
                         mali_gralloc_lock_ycbcr(buffer, usage, l, t, w, h, out_null, overflow_test)
                    [] fn = "lock_flex_async" ->
                         mali_gralloc_lock_flex_async(buffer, usage, l, t, w, h, out_null,
                                                      overflow_test) } :
          lk' = [pc |-> "returned", fn |-> fn, buffer |-> [buffer EXCEPT !.writeOwner = r.writeOwner],
                 usage |-> usage, l |-> l, t |-> t, w |-> w, h |-> h, out_null |-> out_null,
                 status |-> r.status, written |-> r.written]
    /\ UNCHANGED << modVars, capsVars, counter, allocVars, lockVars, idVars, sel, geo >>

NextLock ==
    /\ lk.pc = "idle"
    /\ \E fn \in LockFunctions, buffer \in LockHandles, usage \in LockUsages,
          l \in LockOffsets, t \in {0, INT_MAX}, w \in LockOffsets, h \in LockExtents,
          out_null \in BOOLEAN, overflow_test \in {"wraps", "folded"} :
          LockRequest(fn, buffer, usage, l, t, w, h, out_null, overflow_test)

SpecLock == InitLock /\ [][NextLock]_vars

\* The conditions of a lock request the claim names.
lock_preconditions ==
    /\ lk.l >= 0 /\ lk.t >= 0 /\ lk.w >= 0 /\ lk.h >= 0
    /\ lk.l + lk.w <= INT_MAX /\ lk.t + lk.h <= INT_MAX
    /\ lk.l + lk.w <= lk.buffer.width /\ lk.t + lk.h <= lk.buffer.height
    /\ (lk.buffer.allocating_pid = getpid \/ lk.buffer.remote_pid = getpid)
    /\ lk.buffer.base # NULL
    /\ ~AnyBit(lk.buffer.alloc_format.ext, MALI_GRALLOC_INTFMT_AFBCENABLE_MASK)

\* C19: a lock request succeeds only if the region is non-negative, its
\* sums do not overflow and lie within the buffer, the caller is the
\* allocating or the retaining process, the buffer is mapped and its
\* alloc_format has no AFBC bit; otherwise it returns an error and stores no
\* CPU pointer in the output.
C19_LockValidatesRequest ==
    lk.pc = "returned" =>
        /\ lk.status = "0" => lock_preconditions
        /\ ~lock_preconditions => (lk.status \in {"EINVAL", "UNSUPPORTED"} /\ ~lk.written)

(***************************************************************************)
(* get_alloc_type on its own: one call for a catalog format, a set of      *)
(* modifier bits of the internal format and a usage with or without the    *)
(* AFBC padding bit.                                                       *)
(***************************************************************************)
AllocTypeModifierBits == AfbcModifierBits \cup {"AFBC_SPLITBLK"}

GetAllocType(internal_format, format_idx, usage) ==
    /\ \E r \in { get_alloc_type(internal_format, format_idx, usage) } :
          geo' = [pc |-> "typed", internal_format |-> internal_format,
                  format_idx |-> format_idx, usage |-> usage,
                  rval |-> r.rval, alloc_type |-> r.type]
    /\ UNCHANGED << modVars, capsVars, counter, allocVars, lockVars, idVars, sel, lk >>

NextAllocType ==
    /\ geo.pc = "idle"
    /\ \E format_idx \in 1 .. num_formats, ext \in SUBSET AllocTypeModifierBits,
          usage \in {{}, MALI_GRALLOC_USAGE_AFBC_PADDING} :
          GetAllocType([fmt |-> formats[format_idx].id, ext |-> ext], format_idx, usage)

SpecAllocType == InitSelect /\ [][NextAllocType]_vars

typed_ext == geo.internal_format.ext

typed_npln == formats[geo.format_idx].npln

\* C21: get_alloc_type returns false exactly for the AFBC internal formats
\* that set EXTRAWIDEBLK without TILED_HEADERS or set WIDEBLK and
\* EXTRAWIDEBLK on a single-plane base format; an accepted AFBC format is
\* multi-plane only if its base format has more than one plane and
\* TILED_HEADERS and EXTRAWIDEBLK are set.
C21_AllocTypeRejections ==
    geo.pc = "typed" =>
        /\ ~geo.rval <=>
              /\ AnyBit(typed_ext, MALI_GRALLOC_INTFMT_AFBCENABLE_MASK)
              /\ \/ "AFBC_EXTRAWIDEBLK" \in typed_ext /\ "AFBC_TILED_HEADERS" \notin typed_ext
                 \/ typed_npln = 1 /\ {"AFBC_WIDEBLK", "AFBC_EXTRAWIDEBLK"} \subseteq typed_ext
        /\ (/\ geo.rval
            /\ AnyBit(typed_ext, MALI_GRALLOC_INTFMT_AFBCENABLE_MASK)
            /\ geo.alloc_type.is_multi_plane)
           => (/\ typed_npln > 1
               /\ {"AFBC_TILED_HEADERS", "AFBC_EXTRAWIDEBLK"} \subseteq typed_ext)

\* Both rejections and an accepted multi-plane AFBC type occur; this is the
\* rejected single-plane format with wide and extra-wide blocks and tiled
\* headers.
C21_Witness ==
    /\ geo.pc = "typed"
    /\ ~geo.rval
    /\ typed_npln = 1
    /\ typed_ext = {"AFBC_BASIC", "AFBC_TILED_HEADERS", "AFBC_WIDEBLK", "AFBC_EXTRAWIDEBLK"}

\* C22: for every internal format with DOUBLE_BODY together with WIDEBLK or
\* EXTRAWIDEBLK, get_alloc_type returns false or leaves
\* is_frontbuffer_safe = false, so that no allocation is sized as
\* front-buffer safe with a wide or extra-wide primary superblock.
C22_NoFrontbufferSafeWideBlock ==
    (/\ geo.pc = "typed"
     /\ "AFBC_DOUBLE_BODY" \in typed_ext
     /\ AnyBit(typed_ext, {"AFBC_WIDEBLK", "AFBC_EXTRAWIDEBLK"}))
    => (~geo.rval \/ ~geo.alloc_type.is_frontbuffer_safe)

(***************************************************************************)
(* afbc_format_fallback on its own: one call for a catalog format, a       *)
(* usage, the force flag and a GPU with or without multi-plane read.  The  *)
(* call reads the capabilities first when no earlier call has.             *)
(***************************************************************************)
FallbackGpuMasks ==
    { {"OPTIONS_PRESENT", "AFBC_BASIC"},
      {"OPTIONS_PRESENT", "AFBC_BASIC", "AFBC_TILED_HEADERS", "AFBC_MULTIPLANE_READ"} }

AfbcFormatFallback(format_idx, usage, force, gpu) ==
    \E caps \in { determine_format_capabilities(
                      LibEnv({"OPTIONS_PRESENT", "AFBC_BASIC"}, gpu,
                             {"OPTIONS_PRESENT", "AFBC_BASIC"})) } :
       \E r \in { afbc_format_fallback(format_idx, usage, force, caps) } :
           /\ runtime_caps_read' = TRUE
           /\ dpu_runtime_caps' = caps.dpu
           /\ gpu_runtime_caps' = caps.gpu
           /\ vpu_runtime_caps' = caps.vpu
           /\ cam_runtime_caps' = caps.cam
           /\ probe_runs' = probe_runs + 1
           /\ sel' = [pc |-> "fellback", orig_idx |-> format_idx, usage |-> usage,
                      force |-> force,
                      required |-> fallback_converts(format_idx, formats[format_idx], usage,
                                                     force, caps),
                      found |-> convert_yuv_to_afbc_single_plane(format_idx).rval,
                      res |-> r.res, format_idx |-> r.format_idx]
           /\ UNCHANGED << modVars, counter, allocVars, lockVars, idVars, geo, lk >>

NextFallback ==
    /\ sel.pc = "idle"
    /\ \E format_idx \in 1 .. num_formats, usage \in PrepUsages, force \in BOOLEAN,
          gpu \in FallbackGpuMasks :
          AfbcFormatFallback(format_idx, usage, force, gpu)

SpecFallback == InitSelect /\ [][NextFallback]_vars

\* C23: afbc_format_fallback returns false whenever a conversion is required
\* (forced or multi-plane unsupported, for a format that is multi-plane or
\* lacks AFBC support) and no equivalent single-plane AFBC format is found;
\* it returns true only when no fallback was needed or a single-plane format
\* was found.
C23_FallbackFailureReported ==
    sel.pc = "fellback" =>
        /\ (sel.required /\ ~sel.found) => ~sel.res
        /\ sel.res => (~sel.required \/ sel.found)

\* C24: for uncompressed YV12 and every width of the range, with CPU usage,
\* hardware usage or both, the byte stride of planes 1 and 2 is the byte
\* stride of plane 0 halved and rounded up to 16.
C24_Yv12ChromaStride ==
    (/\ geo.pc = "computed"
     /\ geo.format.id = "YV12"
     /\ ~is_afbc(geo.alloc_type)
     /\ geo.has_cpu_usage \/ geo.has_hw_usage)
    => \A p \in {2, 3} :
          geo.plane_info[p].byte_stride = GRALLOC_ALIGN(geo.plane_info[1].byte_stride \div 2, 16)

(***************************************************************************)
(* Automatic selection over the capability masks the drivers can report:   *)
(* get_block_capabilities copies each mask as the library exports it, so   *)
(* every set of the AFBC feature bits can arrive.                          *)
(***************************************************************************)
MaskBits == {"AFBC_BASIC", "AFBC_SPLITBLK", "AFBC_TILED_HEADERS"}

MaskEnvs ==
    { LibEnv({"OPTIONS_PRESENT"} \cup dpu, {"OPTIONS_PRESENT"} \cup gpu, {"OPTIONS_PRESENT"} \cup vpu) :
        dpu \in SUBSET MaskBits, gpu \in SUBSET MaskBits, vpu \in SUBSET MaskBits }

MaskFormats == {"RGBA_8888", "NV12", "YV12"}

MaskUsages ==
    { GRALLOC_USAGE_HW_RENDER \cup GRALLOC_USAGE_HW_TEXTURE,
      GRALLOC_USAGE_HW_RENDER \cup GRALLOC_USAGE_HW_COMPOSER,
      GRALLOC_USAGE_HW_RENDER \cup GRALLOC_USAGE_HW_VIDEO_ENCODER,
      GRALLOC_USAGE_HW_TEXTURE,
      GRALLOC_USAGE_HW_TEXTURE \cup MALI_GRALLOC_USAGE_NO_AFBC }

NextMasks ==
    /\ sel.pc = "idle"
    /\ \E fmt \in MaskFormats, usage \in MaskUsages, env \in MaskEnvs, oob \in OobEntries :
           SelectFormat(fmt, usage, env, oob)

SpecMasks == InitSelect /\ [][NextMasks]_vars

\* The modifier bits of an extended AFBC feature.
ExtendedAfbcBits == {"AFBC_SPLITBLK", "AFBC_WIDEBLK", "AFBC_TILED_HEADERS", "AFBC_DOUBLE_BODY"}

\* C25: an internal format produced by automatic selection that has any of
\* SPLITBLK, WIDEBLK, TILED_HEADERS or DOUBLE_BODY set also has AFBC_BASIC
\* set, whatever the requested format, the usage and the capability masks.
C25_ExtendedBitsImplyBasic ==
    (sel.pc = "selected" /\ AnyBit(sel.internal_format.ext, ExtendedAfbcBits))
    => "AFBC_BASIC" \in sel.internal_format.ext

(***************************************************************************)
(* One buffer descriptor used for several allocations.  Between two        *)
(* allocations the client sets the descriptor's format and usage           *)
(* (mali_gralloc_set_format, mali_gralloc_set_producer_usage); the         *)
(* allocation fills the descriptor in place and copies it into the handle. *)
(* The ION allocation itself succeeds.                                     *)
(***************************************************************************)
MaxReuse == 3

ReuseFormats == {"NV12", "YV12", "RGBA_8888", "RGB_565"}

ReuseUsages == {GRALLOC_USAGE_HW_TEXTURE, GRALLOC_USAGE_SW_READ_OFTEN \cup GRALLOC_USAGE_HW_TEXTURE}

ReuseGpuMasks == { {"OPTIONS_PRESENT"}, {"OPTIONS_PRESENT", "AFBC_BASIC"} }

\* What one allocation leaves: the descriptor, and the handle when the
\* descriptor was accepted.
allocated_with(n, prep) ==
    [pc |-> "allocated", n |-> n, rejected |-> prep.rejected, d |-> prep.d,
     handle |-> IF prep.rejected = "" THEN private_handle_t({"USES_ION"}, prep.d, SZ_4K, 1, prep.d.size)
                ELSE ZeroHandle]

FirstAllocation(fmt, usage, gpu, width, oob) ==
    /\ sel.pc = "idle"
    /\ \E caps \in { determine_format_capabilities(
                         LibEnv({"OPTIONS_PRESENT", "AFBC_BASIC"}, gpu,
                                {"OPTIONS_PRESENT", "AFBC_BASIC"})) } :
          /\ runtime_caps_read' = TRUE
          /\ dpu_runtime_caps' = caps.dpu
          /\ gpu_runtime_caps' = caps.gpu
          /\ vpu_runtime_caps' = caps.vpu
          /\ cam_runtime_caps' = caps.cam
          /\ probe_runs' = probe_runs + 1
          /\ \E prep \in { prepare_descriptor(Descriptor(BaseFormat(fmt), "USAGE", usage,
                                                         width, 16, 1), caps, oob) } :
                sel' = allocated_with(1, prep)
    /\ UNCHANGED << modVars, counter, allocVars, lockVars, idVars, geo, lk >>

ReusedAllocation(fmt, usage, oob) ==
    /\ sel.pc = "allocated"
    /\ sel.n < MaxReuse
    /\ \E prep \in { prepare_descriptor([sel.d EXCEPT !.hal_format = BaseFormat(fmt),
                                                      !.usage = usage],
                                        current_caps, oob) } :
          sel' = allocated_with(sel.n + 1, prep)
    /\ UNCHANGED << modVars, capsVars, counter, allocVars, lockVars, idVars, geo, lk >>

NextReuse ==
    \/ \E fmt \in ReuseFormats, usage \in ReuseUsages, gpu \in ReuseGpuMasks,
          width \in {16, 33}, oob \in OobEntries :
          FirstAllocation(fmt, usage, gpu, width, oob)
    \/ \E fmt \in ReuseFormats, usage \in ReuseUsages, oob \in OobEntries :
          ReusedAllocation(fmt, usage, oob)

SpecReuse == InitSelect /\ [][NextReuse]_vars

\* C26: when one descriptor is reused with different formats, the handle of
\* each allocation reports is_multi_plane() exactly when the format
\* allocated has more than one plane, and its plane_info entries from the
\* plane count on are zero.
C26_ReusedDescriptorPlanes ==
    (sel.pc = "allocated" /\ sel.rejected = "") =>
        /\ is_multi_plane(sel.handle) <=> plane_count(sel.handle.alloc_format.fmt) > 1
        /\ \A p \in 1 .. MAX_PLANES :
              p > plane_count(sel.handle.alloc_format.fmt) => sel.handle.plane_info[p] = ZeroPlane

\* The heap picked for descriptor i of the batch.
picked_heap(i) == pick_ion_heap(m, descriptors[i].usage, build)

\* C27: in a non-shared batch the ION flags and the private heap flag used
\* for descriptor i are those of descriptor i allocated alone: they follow
\* from its own usage and picked heap, whatever descriptors precede it.
C27_FlagsOfOwnDescriptor ==
    ~shared =>
        /\ \A k \in DOMAIN ion_log :
              ion_log[k].heap_type = picked_heap(ion_log[k].desc)
              => ion_log[k].flags = set_ion_flags(picked_heap(ion_log[k].desc),
                                                  descriptors[ion_log[k].desc].usage, {}, build)
        /\ \A i \in DOMAIN pHandle :
              (pHandle[i] # NULL /\ "USES_ION" \in hnd[pHandle[i]].flags)
              => hnd[pHandle[i]].flags \ {"USES_ION"}
                   = set_priv_heap_flag(picked_heap(i), {}, build)


(***************************************************************************)
(* A buffer as mali_gralloc_ion_allocate leaves it, then one lock request  *)
(* on it by the allocating process.                                        *)
(***************************************************************************)
\* The mapping loop mapping every buffer, PROTECTED or not.
map_allocated_buffer_always(buffer, usage, cpu_ptr) ==
    [buffer EXCEPT !.base = cpu_ptr]

\* One iteration of the mapping loop of mali_gralloc_ion_allocate whose
\* mmap succeeded with cpu_ptr: a PROTECTED buffer is not mapped.
map_allocated_buffer(buffer, usage, cpu_ptr) ==
    IF AnyBit(usage, GRALLOC_USAGE_PROTECTED) THEN buffer
    ELSE [buffer EXCEPT !.base = cpu_ptr]

ProtectedUsages ==
    { GRALLOC_USAGE_PROTECTED \cup GRALLOC_USAGE_HW_TEXTURE,
      GRALLOC_USAGE_PROTECTED \cup GRALLOC_USAGE_SW_READ_OFTEN \cup GRALLOC_USAGE_SW_WRITE_OFTEN,
      GRALLOC_USAGE_SW_READ_OFTEN \cup GRALLOC_USAGE_SW_WRITE_OFTEN,
      GRALLOC_USAGE_HW_TEXTURE }

\* The handle constructed for the descriptor (base NULL, allocating_pid the
\* caller, remote_pid -1, writeOwner 0) and then passed to the mapping loop.
AllocateForLock(f, size, usage, cpu_ptr) ==
    /\ lk.pc = "idle"
    /\ lk' = [pc |-> "allocated",
              buffer |-> map_allocated_buffer(
                             [width |-> size, height |-> size, allocating_pid |-> getpid,
                              remote_pid |-> -1, base |-> NULL, usage |-> usage,
                              alloc_format |-> f.alloc_format, req_format |-> f.req_format,
                              flags |-> {"USES_ION"}, writeOwner |-> FALSE],
                             usage, cpu_ptr)]
    /\ UNCHANGED << modVars, capsVars, counter, allocVars, lockVars, idVars, sel, geo >>

LockAllocated ==
    /\ lk.pc = "allocated"
    /\ \E fn \in LockFunctions, usage \in LockUsages, l \in {0, 2}, t \in {0},
          w \in {0, 2}, h \in {0, 2}, out_null \in BOOLEAN,
          overflow_test \in {"wraps", "folded"} :
          LockRequest(fn, lk.buffer, usage, l, t, w, h, out_null, overflow_test)

NextProtected ==
    \/ \E f \in LockFormats, size \in {2, INT_MAX}, usage \in ProtectedUsages,
          cpu_ptr \in {1, 2} :
          AllocateForLock(f, size, usage, cpu_ptr)
    \/ LockAllocated

SpecProtected == InitLock /\ [][NextProtected]_vars

MaxCalls == 4

\* Whether mali_gralloc_ion_sync calls ion_sync_fd for the buffer.
mali_gralloc_ion_sync(buffer) ==
    "USES_ION" \in buffer.flags /\ "USES_ION_DMA_HEAP" \notin buffer.flags

\* mali_gralloc_unlock: its status and whether the cache sync was performed.
mali_gralloc_unlock(buffer) ==
    [status |-> "0",
     synced |-> "USES_ION" \in buffer.flags /\ buffer.writeOwner /\ mali_gralloc_ion_sync(buffer)]

SeqFormats ==
    { [alloc_format |-> BaseFormat("RGBA_8888"), req_format |-> "RGBA_8888"],
      [alloc_format |-> BaseFormat("NV12"), req_format |-> "NV12"],
      [alloc_format |-> BaseFormat("RGB_565"), req_format |-> "RGB_565"] }

SeqFlags == { {"USES_ION"}, {"USES_ION", "USES_ION_DMA_HEAP"} }

SeqUsages == { GRALLOC_USAGE_SW_READ_OFTEN,
               GRALLOC_USAGE_SW_READ_OFTEN \cup GRALLOC_USAGE_SW_WRITE_OFTEN,
               GRALLOC_USAGE_HW_TEXTURE }

\* The buffer as allocated and mapped; no call made yet.
OpenHandle(f, flags) ==
    /\ lk.pc = "idle"
    /\ \E buffer \in { [width |-> 2, height |-> 2, allocating_pid |-> getpid, remote_pid |-> -1,
                        base |-> 1, alloc_format |-> f.alloc_format,
                        req_format |-> f.req_format, flags |-> flags, writeOwner |-> FALSE] } :
          lk' = [pc |-> "seq", buffer |-> buffer, before |-> buffer, n |-> 0, op |-> "none",
                 fn |-> "none", usage |-> {}, status |-> "0", synced |-> FALSE,
                 write_pending |-> FALSE, latest_lock |-> "none",
                 was_pending |-> FALSE, was_latest |-> "none"]
    /\ UNCHANGED << modVars, capsVars, counter, allocVars, lockVars, idVars, sel, geo >>

\* One lock call.  write_pending: a lock with a CPU write usage succeeded
\* since the last unlock; latest_lock: the kind of the latest successful
\* lock.  A lock that dereferences a NULL output ends the process.
SeqLock(fn, usage, l, out_null) ==
    /\ lk.pc = "seq"
    /\ lk.n < MaxCalls
    /\ \E r \in { CASE fn = "lock" ->
                         mali_gralloc_lock(lk.buffer, usage, l, 0, 0, 0, out_null, "wraps")
                    [] fn = "lock_ycbcr" ->
                         mali_gralloc_lock_ycbcr(lk.buffer, usage, l, 0, 0, 0, out_null, "wraps")
                    [] fn = "lock_flex_async" ->
                         mali_gralloc_lock_flex_async(lk.buffer, usage, l, 0, 0, 0, out_null,
                                                      "wraps") } :
          \E write \in { AnyBit(usage, GRALLOC_USAGE_SW_WRITE_MASK) } :
             lk' = [lk EXCEPT !.pc = IF r.status = "SIGSEGV" THEN "crashed" ELSE "seq",
                              !.buffer = [lk.buffer EXCEPT !.writeOwner = r.writeOwner],
                              !.before = lk.buffer, !.n = @ + 1, !.op = "lock", !.fn = fn,
                              !.usage = usage, !.status = r.status, !.synced = FALSE,
                              !.write_pending = @ \/ (r.status = "0" /\ write),
                              !.latest_lock = IF r.status # "0" THEN @
                                              ELSE IF write THEN "write" ELSE "read"]
    /\ UNCHANGED << modVars, capsVars, counter, allocVars, lockVars, idVars, sel, geo >>

\* One unlock call.
SeqUnlock ==
    /\ lk.pc = "seq"
    /\ lk.n < MaxCalls
    /\ \E r \in { mali_gralloc_unlock(lk.buffer) } :
          lk' = [lk EXCEPT !.before = lk.buffer, !.n = @ + 1, !.op = "unlock", !.fn = "unlock",
                           !.usage = {}, !.status = r.status, !.synced = r.synced,
                           !.was_pending = lk.write_pending, !.was_latest = lk.latest_lock,
                           !.write_pending = FALSE]
    /\ UNCHANGED << modVars, capsVars, counter, allocVars, lockVars, idVars, sel, geo >>

NextLockSeq ==
    \/ \E f \in SeqFormats, flags \in SeqFlags : OpenHandle(f, flags)
    \/ \E fn \in LockFunctions, usage \in SeqUsages, l \in {0, -1}, out_null \in BOOLEAN :
          SeqLock(fn, usage, l, out_null)
    \/ SeqUnlock

SpecLockSeq == InitLock /\ [][NextLockSeq]_vars

\* C29: a lock call that returns an error leaves the handle as it was
\* before the call; in particular writeOwner keeps its value.
C29_FailedLockLeavesHandle ==
    (lk.pc = "seq" /\ lk.op = "lock" /\ lk.status \in {"EINVAL", "UNSUPPORTED"})
        => lk.buffer = lk.before

\* C30: on an ION-backed handle not on the DMA heap, an unlock that follows
\* a successful lock with a CPU write usage (no unlock in between, whatever
\* other lock calls came after it) performs the cache sync; an unlock with
\* no such lock before it and whose latest successful lock had no CPU write
\* usage performs none.
C30_UnlockSyncsAfterWrite ==
    (lk.pc = "seq" /\ lk.op = "unlock" /\ lk.buffer.flags = {"USES_ION"})
        => /\ lk.was_pending => lk.synced
           /\ (~lk.was_pending /\ lk.was_latest = "read") => ~lk.synced

====
